---- MODULE Spec2Model ----
(***************************************************************************)
(* Model of the zion-brain request handlers: the deterministic dialogue    *)
(* gate (src/api/zion.js), the generation-backed dialogue handler          *)
(* (src/unnamed/part_001), the proposal generator and the intake handler   *)
(* (src/api/intake.js), the V2 intake handler (src/unnamed/part_000) and    *)
(* the fetch of a stored proposal (src/api/proposal.js).  The two pure      *)
(* validators, validateProposalShape and coerceToContract, are also called *)
(* on their own, on arguments drawn from bounded sets.                     *)
(*                                                                         *)
(* JavaScript strings that the code inspects (messages, generated text)    *)
(* are sequences of one-character strings, so that trim, toLowerCase,      *)
(* includes, slice and the regular expression of inferTargetMetric are     *)
(* computed, not assumed.  Text the code only emits (replies, labels) is   *)
(* a TLA+ string.  A missing (undefined) text field is the empty sequence  *)
(* or the empty string: the code tests these fields by truthiness only.    *)
(***************************************************************************)
EXTENDS Integers, Sequences, FiniteSets, TLC

(***************************************************************************)
(* String primitives of the JavaScript runtime used by the handlers.       *)
(***************************************************************************)
IsSpace(c) == c \in {" ", "\t", "\n", "\r"}

IsDigit(c) == c \in {"0", "1", "2", "3", "4", "5", "6", "7", "8", "9"}

UpperChars == <<"A", "B", "C", "D", "E", "F", "G", "H", "I", "J", "K", "L", "M", "N", "O", "P", "Q", "R", "S", "T", "U", "V", "W", "X", "Y", "Z">>

LowerChars == <<"a", "b", "c", "d", "e", "f", "g", "h", "i", "j", "k", "l", "m", "n", "o", "p", "q", "r", "s", "t", "u", "v", "w", "x", "y", "z">>

LowerChar(c) ==
  IF \E i \in 1..Len(UpperChars) : UpperChars[i] = c
  THEN LowerChars[CHOOSE i \in 1..Len(UpperChars) : UpperChars[i] = c]
  ELSE c

toLowerCase(s) == [i \in 1..Len(s) |-> LowerChar(s[i])]

RECURSIVE trimStart(_)
trimStart(s) ==
  IF s = <<>> THEN s
  ELSE IF IsSpace(Head(s)) THEN trimStart(Tail(s)) ELSE s

RECURSIVE trimEnd(_)
trimEnd(s) ==
  IF s = <<>> THEN s
  ELSE IF IsSpace(s[Len(s)]) THEN trimEnd(SubSeq(s, 1, Len(s) - 1)) ELSE s

trim(s) == trimEnd(trimStart(s))

\* s.slice(0, max)
sliceTo(s, max) == IF Len(s) > max THEN SubSeq(s, 1, max) ELSE s

\* s.includes(sub)
includes(s, sub) ==
  \E i \in 0..(Len(s) - Len(sub)) : SubSeq(s, i + 1, i + Len(sub)) = sub

\* s.startsWith(sub, from) with from counted from 1
startsAt(s, from, sub) ==
  /\ from + Len(sub) - 1 <= Len(s)
  /\ SubSeq(s, from, from + Len(sub) - 1) = sub

DigitValue(c) == CHOOSE d \in 0..9 : <<"0", "1", "2", "3", "4", "5", "6", "7", "8", "9">>[d + 1] = c

\* Number(digits) for a non-empty run of decimal digits
RECURSIVE DigitsToNumber(_)
DigitsToNumber(ds) ==
  IF ds = <<>> THEN 0
  ELSE 10 * DigitsToNumber(SubSeq(ds, 1, Len(ds) - 1)) + DigitValue(ds[Len(ds)])

(***************************************************************************)
(* src/api/zion.js: helpers                                                *)
(***************************************************************************)
clampStr(s, max) == sliceTo(trim(s), max)

normalize(s) == trim(s)

NonAnswers ==
  { <<"i", "d", "k">>, <<"i", " ", "d", "o", "n", "t", " ", "k", "n", "o", "w">>, <<"n", "o", "t", " ", "s", "u", "r", "e">>, <<"h", "e", "l", "p">>, <<"h", "o", "w">>, <<"o", "k">>,
    <<"o", "k", "a", "y">>, <<"s", "o", "u", "n", "d", "s", " ", "g", "o", "o", "d">>, <<"y", "e", "s">>, <<"y", "e", "p">>, <<"y", "e", "a", "h">>, <<"c", "o", "o", "l">> }

isNonAnswer(text) ==
  LET t == trim(toLowerCase(text))
  IN  IF t = <<>> THEN TRUE ELSE t \in NonAnswers

inferGoal(text) ==
  LET t == toLowerCase(text)
  IN  IF t = <<>> THEN ""
      ELSE IF includes(t, <<"l", "e", "a", "d">>) THEN "Leads"
      ELSE IF includes(t, <<"s", "a", "l", "e">>) \/ includes(t, <<"r", "e", "v", "e", "n", "u", "e">>) THEN "Sales"
      ELSE IF includes(t, <<"b", "o", "o", "k">>) \/ includes(t, <<"e", "s", "t", "i", "m", "a", "t", "e">>)
              \/ includes(t, <<"a", "p", "p", "o", "i", "n", "t", "m", "e", "n", "t">>) THEN "Bookings"
      ELSE IF includes(t, <<"f", "o", "l", "l", "o", "w">>) \/ includes(t, <<"n", "u", "r", "t", "u", "r", "e">>)
              \/ includes(t, <<"a", "u", "t", "o", "m", "a", "t", "i", "o", "n">>) THEN "Follow-up"
      ELSE IF includes(t, <<"s", "e", "o">>) \/ includes(t, <<"r", "a", "n", "k">>)
              \/ includes(t, <<"g", "o", "o", "g", "l", "e">>) THEN "SEO / Visibility"
      ELSE IF includes(t, <<"c", "o", "n", "t", "e", "n", "t">>) \/ includes(t, <<"p", "o", "s", "t">>)
              \/ includes(t, <<"s", "o", "c", "i", "a", "l">>) THEN "Content"
      ELSE ""

inferBusinessType(text) ==
  LET raw == clampStr(text, 240)
      t == toLowerCase(raw)
      label ==
        IF includes(t, <<"l", "a", "n", "d", "s", "c", "a", "p">>) THEN "Landscaping / Outdoor"
        ELSE IF includes(t, <<"h", "o", "m", "e", " ", "s", "e", "r", "v", "i", "c", "e">>) \/ includes(t, <<"r", "o", "o", "f">>)
                \/ includes(t, <<"h", "v", "a", "c">>) \/ includes(t, <<"p", "l", "u", "m", "b">>)
                \/ includes(t, <<"e", "l", "e", "c", "t", "r", "i", "c">>) \/ includes(t, <<"c", "o", "n", "t", "r", "a", "c", "t">>)
             THEN "Home Services"
        ELSE IF includes(t, <<"r", "e", "a", "l", " ", "e", "s", "t", "a", "t", "e">>) \/ includes(t, <<"r", "e", "a", "l", "t", "o", "r">>)
             THEN "Real Estate"
        ELSE IF includes(t, <<"l", "a", "w">>) \/ includes(t, <<"a", "t", "t", "o", "r", "n", "e", "y">>) THEN "Legal"
        ELSE IF includes(t, <<"c", "l", "i", "n", "i", "c">>) \/ includes(t, <<"m", "e", "d">>)
                \/ includes(t, <<"d", "e", "n", "t", "a", "l">>) THEN "Healthcare"
        ELSE IF includes(t, <<"e", "c", "o", "m">>) \/ includes(t, <<"s", "h", "o", "p", "i", "f", "y">>)
                \/ includes(t, <<"s", "t", "o", "r", "e">>) THEN "E-Commerce"
        ELSE ""
      buyer ==
        IF includes(t, <<"h", "o", "m", "e", "o", "w", "n", "e", "r">>) THEN "Homeowners"
        ELSE IF includes(t, <<"b", "2", "b">>) \/ includes(t, <<"b", "u", "s", "i", "n", "e", "s", "s">>) THEN "Businesses"
        ELSE IF includes(t, <<"c", "o", "n", "s", "u", "m", "e", "r">>) \/ includes(t, <<"c", "u", "s", "t", "o", "m", "e", "r">>)
             THEN "Consumers"
        ELSE ""
  IN  [raw |-> raw, label |-> label, buyer |-> buyer]

\* The alternation of the regular expression, in its order: the first
\* alternative that matches at a position wins.
MetricUnits ==
  << <<"l", "e", "a", "d">>, <<"l", "e", "a", "d", "s">>, <<"b", "o", "o", "k", "i", "n", "g">>, <<"b", "o", "o", "k", "i", "n", "g", "s">>, <<"e", "s", "t", "i", "m", "a", "t", "e">>,
     <<"e", "s", "t", "i", "m", "a", "t", "e", "s">>, <<"c", "a", "l", "l", "s">>, <<"a", "p", "p", "o", "i", "n", "t", "m", "e", "n", "t", "s">>, <<"j", "o", "b", "s">>, <<"c", "u", "s", "t", "o", "m", "e", "r", "s">> >>

\* end of the maximal run of digits that starts at position i
RECURSIVE DigitRunEnd(_, _)
DigitRunEnd(s, i) ==
  IF i + 1 <= Len(s) /\ IsDigit(s[i + 1]) THEN DigitRunEnd(s, i + 1) ELSE i

\* first position at or after i that is not white space
RECURSIVE SkipSpace(_, _)
SkipSpace(s, i) ==
  IF i <= Len(s) /\ IsSpace(s[i]) THEN SkipSpace(s, i + 1) ELSE i

\* the value JavaScript gives a missing number (null)
NoNumber == -1

\* raw.match(/(\d+)\s*(lead|leads|...)/i): the leftmost match
inferTargetMetric(text) ==
  LET raw == clampStr(text, 220)
      low == toLowerCase(raw)
      UnitAt(i) ==
        LET p == SkipSpace(low, DigitRunEnd(low, i) + 1)
        IN  { k \in 1..Len(MetricUnits) : startsAt(low, p, MetricUnits[k]) }
      Starts == { i \in 1..Len(raw) : IsDigit(raw[i]) /\ UnitAt(i) # {} }
  IN  IF Starts = {}
      THEN [raw |-> raw, num |-> NoNumber, unit |-> <<>>]
      ELSE LET i == CHOOSE j \in Starts : \A k \in Starts : j <= k
               k == CHOOSE a \in UnitAt(i) : \A b \in UnitAt(i) : a <= b
           IN  [raw |-> raw,
                num |-> DigitsToNumber(SubSeq(raw, i, DigitRunEnd(raw, i))),
                unit |-> MetricUnits[k]]

(***************************************************************************)
(* src/api/zion.js: gate configuration and prompts                         *)
(***************************************************************************)
MAX_USER_INPUTS_TOTAL == 10

MAX_USER_INPUTS_BEFORE_INTAKE == 6

STAGES ==
  [START |-> "start", GOAL |-> "goal", BUSINESS |-> "business",
   METRIC |-> "metric", CAPTURE |-> "capture"]

\* mutant: the first response already moves on to the business stage
promptGoalAdvancing ==
  [reply |-> "Zion online. What is your #1 goal for the next 30 days-leads, booked estimates, or revenue?",
   next_question |-> "What is your #1 goal for the next 30 days (leads, booked estimates, or revenue)?",
   capture_intent |-> "none",
   stage |-> STAGES.BUSINESS]

promptGoal ==
  [reply |-> "Zion online. What is your #1 goal for the next 30 days-leads, booked estimates, or revenue?",
   next_question |-> "What is your #1 goal for the next 30 days (leads, booked estimates, or revenue)?",
   capture_intent |-> "none",
   stage |-> STAGES.GOAL]

promptBusiness ==
  [reply |-> "Understood. What do you do, and who do you sell to?",
   next_question |-> "What do you do, and who is the primary buyer?",
   capture_intent |-> "none",
   stage |-> STAGES.BUSINESS]

promptMetric ==
  [reply |-> "Good. Now set a measurable target. What would make the next 30 days a win-give me a number.",
   next_question |-> "What would make the next 30 days a win (e.g., 20 leads, 10 bookings, $15k revenue)?",
   capture_intent |-> "none",
   stage |-> STAGES.METRIC]

triggerIntake ==
  [reply |-> "Perfect. I have enough to generate your executive summary + tiers. Open the intake-two minutes-and I'll output the plan.",
   next_question |-> "Open the intake so I can generate your executive summary and tiers.",
   capture_intent |-> "ask_contact",
   stage |-> STAGES.CAPTURE]

\* the literal reply object of the branch taken once capture is locked
lockedOut ==
  [reply |-> "I'm ready. Complete the intake and I'll generate your executive summary and tiers.",
   next_question |-> "Complete the intake so I can generate your executive summary and tiers.",
   capture_intent |-> "ask_contact"]

(***************************************************************************)
(* The notes object.  {} is EmptyNotes: every field missing.  A missing     *)
(* stage is "", a missing timestamp is 0, a missing number is NoNumber,     *)
(* capture_locked is TRUE exactly when the field is the boolean true, and   *)
(* transcript.array says whether the field is an array.                     *)
(***************************************************************************)
EmptyNotes ==
  [session_id |-> "",
   last_updated_at |-> 0,
   stage |-> "",
   user_inputs |-> 0,
   transcript |-> [array |-> FALSE, items |-> <<>>],
   business_offer |-> <<>>,
   capture_locked |-> FALSE,
   primary_goal |-> "",
   primary_goal_raw |-> <<>>,
   business_type |-> <<>>,
   industry |-> "",
   buyer |-> "",
   target_metric |-> <<>>,
   target_metric_number |-> NoNumber,
   target_metric_unit |-> <<>>]

\* mutant: the transcript is started afresh on every call
ensureTranscriptReset(notes) ==
  [notes EXCEPT !.transcript = [array |-> TRUE, items |-> <<>>]]

ensureTranscript(notes) ==
  IF ~notes.transcript.array
  THEN [notes EXCEPT !.transcript = [array |-> TRUE, items |-> <<>>]]
  ELSE notes

\* notes.transcript.push(entry)
push(notes, entry) ==
  [notes EXCEPT !.transcript.items = Append(@, entry)]

\* the value body.turn has when the field is missing or not a finite number
NoTurn == -1

\* Number.isFinite(Number(body.turn)) ? Number(body.turn) : 0
turnInOf(turn) == IF turn = NoTurn THEN 0 ELSE turn

\* normalize(body.session_id) || "anon"
sessionIdOf(sid) == IF sid = "" THEN "anon" ELSE sid

(***************************************************************************)
(* src/api/zion.js: handler, POST branch.  body is the parsed request       *)
(* {message, session_id, turn, notes}; now is the clock read by nowIso().   *)
(* The result is the JSON response, with `branch` naming the return         *)
(* statement that produced it.                                              *)
(***************************************************************************)

\* mutant: the input count is a counter kept by the server, not by the notes
prepareNotesServerCount(body, now) ==
  LET message == normalize(body.message)
      turnIn == turnInOf(body.turn)
      n0 == ensureTranscript(body.notes)
      n1 == [n0 EXCEPT !.session_id = sessionIdOf(body.session_id),
                       !.last_updated_at = now]
      n2 == IF n1.stage = "" THEN [n1 EXCEPT !.stage = STAGES.START] ELSE n1
      n3 == [n2 EXCEPT !.user_inputs = now]
      n4 == push(n3, [turn |-> turnIn, user |-> clampStr(message, 500), at |-> now])
  IN  IF n4.business_offer = <<>> /\ message # <<>>
      THEN [n4 EXCEPT !.business_offer = clampStr(message, 240)]
      ELSE n4

\* lines 199-217: notes setup, input count, user transcript entry, seed
prepareNotes(body, now) ==
  LET message == normalize(body.message)
      turnIn == turnInOf(body.turn)
      n0 == ensureTranscript(body.notes)
      n1 == [n0 EXCEPT !.session_id = sessionIdOf(body.session_id),
                       !.last_updated_at = now]
      n2 == IF n1.stage = "" THEN [n1 EXCEPT !.stage = STAGES.START] ELSE n1
      n3 == [n2 EXCEPT !.user_inputs = n2.user_inputs + 1]
      n4 == push(n3, [turn |-> turnIn, user |-> clampStr(message, 500), at |-> now])
  IN  IF n4.business_offer = <<>> /\ message # <<>>
      THEN [n4 EXCEPT !.business_offer = clampStr(message, 240)]
      ELSE n4

\* mutant: only the flag is consulted, not the stage
captureLockedFlagOnly(notes) == notes.capture_locked = TRUE

\* line 220
captureLockedOf(notes) ==
  notes.capture_locked = TRUE \/ notes.stage = STAGES.CAPTURE

\* mutant: the cap fires only on the input that reaches it
capReachedExactly(userInputsNow) == userInputsNow = MAX_USER_INPUTS_BEFORE_INTAKE

\* mutant: the cap fires one input late
capReachedLate(userInputsNow) == userInputsNow > MAX_USER_INPUTS_BEFORE_INTAKE

\* line 224
capReached(userInputsNow) == userInputsNow >= MAX_USER_INPUTS_BEFORE_INTAKE

\* line 242
ceilingReached(userInputsNow) == userInputsNow >= MAX_USER_INPUTS_TOTAL

\* json(res, 200, {reply, next_question, capture_intent, turn, notes, ...})
respond(out, notes, turnIn, now, branch) ==
  [reply |-> out.reply,
   next_question |-> out.next_question,
   capture_intent |-> out.capture_intent,
   turn |-> turnIn + 1,
   notes |-> push(notes, [turn |-> turnIn + 1, zion |-> out.reply, at |-> now]),
   branch |-> branch]

\* mutant: the stage is set to capture but the lock is left as it was
forceIntakeStageOnly(notes, turnIn, now, branch) ==
  respond(triggerIntake, [notes EXCEPT !.stage = STAGES.CAPTURE], turnIn, now, branch)

\* lines 225-237, 243-255, 355-367: lock, set the stage, trigger the intake
forceIntake(notes, turnIn, now, branch) ==
  respond(triggerIntake,
          [notes EXCEPT !.capture_locked = TRUE, !.stage = STAGES.CAPTURE],
          turnIn, now, branch)

\* mutant: the raw goal is stored without the isNonAnswer test
storeGoalUnfiltered(notes, message) ==
  LET g == inferGoal(message)
  IN  IF g # "" THEN [notes EXCEPT !.primary_goal = g]
      ELSE IF message # <<>>
           THEN [notes EXCEPT !.primary_goal_raw = clampStr(message, 240)]
           ELSE notes

\* lines 265-267 and 287-289
storeGoal(notes, message) ==
  LET g == inferGoal(message)
  IN  IF g # "" THEN [notes EXCEPT !.primary_goal = g]
      ELSE IF message # <<>> /\ ~isNonAnswer(message)
           THEN [notes EXCEPT !.primary_goal_raw = clampStr(message, 240)]
           ELSE notes

\* lines 309-312
storeBusiness(notes, message) ==
  LET bt == inferBusinessType(message)
      a == IF bt.raw # <<>> THEN [notes EXCEPT !.business_type = bt.raw] ELSE notes
      b == IF bt.label # "" THEN [a EXCEPT !.industry = bt.label] ELSE a
  IN  IF bt.buyer # "" THEN [b EXCEPT !.buyer = bt.buyer] ELSE b

\* lines 332-335
storeMetric(notes, message) ==
  LET tm == inferTargetMetric(message)
      a == IF tm.raw # <<>> THEN [notes EXCEPT !.target_metric = tm.raw] ELSE notes
      b == IF tm.num # NoNumber THEN [a EXCEPT !.target_metric_number = tm.num] ELSE a
  IN  IF tm.unit # <<>> THEN [b EXCEPT !.target_metric_unit = tm.unit] ELSE b

\* mutant: a low-signal message re-issues the question of the current stage
stageMachineHolding(notes, message, turnIn, now) ==
  IF notes.stage = STAGES.START
  THEN respond(promptGoal,
               [storeGoal(notes, message) EXCEPT !.stage = promptGoal.stage],
               turnIn, now, "start")
  ELSE IF notes.stage = STAGES.GOAL
  THEN IF isNonAnswer(message)
       THEN respond(promptGoal, notes, turnIn, now, "goal")
       ELSE respond(promptBusiness,
                    [storeGoal(notes, message) EXCEPT !.stage = promptBusiness.stage],
                    turnIn, now, "goal")
  ELSE IF notes.stage = STAGES.BUSINESS
  THEN IF isNonAnswer(message)
       THEN respond(promptBusiness, notes, turnIn, now, "business")
       ELSE respond(promptMetric,
                    [storeBusiness(notes, message) EXCEPT !.stage = promptMetric.stage],
                    turnIn, now, "business")
  ELSE IF notes.stage = STAGES.METRIC
  THEN IF isNonAnswer(message)
       THEN respond(promptMetric, notes, turnIn, now, "metric")
       ELSE respond(triggerIntake,
                    [storeMetric(notes, message) EXCEPT !.capture_locked = TRUE,
                                                         !.stage = triggerIntake.stage],
                    turnIn, now, "metric")
  ELSE forceIntake(notes, turnIn, now, "unexpected")

\* lines 261-368: the deterministic stage machine (capture not locked)
stageMachine(notes, message, turnIn, now) ==
  IF notes.stage = STAGES.START
  THEN respond(promptGoal,
               [storeGoal(notes, message) EXCEPT !.stage = promptGoal.stage],
               turnIn, now, "start")
  ELSE IF notes.stage = STAGES.GOAL
  THEN respond(promptBusiness,
               [storeGoal(notes, message) EXCEPT !.stage = promptBusiness.stage],
               turnIn, now, "goal")
  ELSE IF notes.stage = STAGES.BUSINESS
  THEN respond(promptMetric,
               [storeBusiness(notes, message) EXCEPT !.stage = promptMetric.stage],
               turnIn, now, "business")
  ELSE IF notes.stage = STAGES.METRIC
  THEN respond(triggerIntake,
               [storeMetric(notes, message) EXCEPT !.capture_locked = TRUE,
                                                    !.stage = triggerIntake.stage],
               turnIn, now, "metric")
  ELSE forceIntake(notes, turnIn, now, "unexpected")

\* mutant: a locked conversation starts over
lockedBranchRestart(notes, turnIn, now) ==
  respond(promptGoal,
          [notes EXCEPT !.stage = STAGES.GOAL, !.capture_locked = FALSE],
          turnIn, now, "locked")

\* mutant: the locked branch answers without writing the stage and the lock
lockedBranchKeepNotes(notes, turnIn, now) ==
  respond(lockedOut, notes, turnIn, now, "locked")

\* lines 370-388: after capture is locked
lockedBranch(notes, turnIn, now) ==
  respond(lockedOut,
          [notes EXCEPT !.stage = STAGES.CAPTURE, !.capture_locked = TRUE],
          turnIn, now, "locked")

\* lines 188-389
zionHandler(body, now) ==
  LET message == normalize(body.message)
      turnIn == turnInOf(body.turn)
      notes == prepareNotes(body, now)
      userInputsNow == notes.user_inputs
      captureLocked == captureLockedOf(notes)
  IN  IF ~captureLocked /\ capReached(userInputsNow)
      THEN forceIntake(notes, turnIn, now, "cap")
      ELSE IF ~captureLocked /\ ceilingReached(userInputsNow)
      THEN forceIntake(notes, turnIn, now, "ceiling")
      ELSE IF ~captureLocked
      THEN stageMachine(notes, message, turnIn, now)
      ELSE lockedBranch(notes, turnIn, now)

(***************************************************************************)
(* JavaScript values and generated text.                                    *)
(*                                                                         *)
(* A string is a text [pre, doc, post]: characters, a JSON document, then   *)
(* characters.  doc is a JSON value, NoDoc (the string holds no document:   *)
(* it is the characters pre \o post) or Broken (brace-delimited text that   *)
(* is not well-formed JSON).  pre, post and the strings inside documents    *)
(* hold no braces.                                                          *)
(*                                                                         *)
(* A value is a record tagged by t: null, num, str, bool, arr, obj; a str   *)
(* holds its text x, an object's members are the function f from its keys.  *)
(* Undefined is the value of a missing member.                              *)
(***************************************************************************)
NoDoc == [t |-> "none"]

Broken == [t |-> "broken"]

Text(pre, doc, post) == [pre |-> pre, doc |-> doc, post |-> post]

EmptyText == Text(<<>>, NoDoc, <<>>)

Undefined == [t |-> "undefined"]

JNull == [t |-> "null"]

JNum(n) == [t |-> "num", n |-> n]

\* the string value whose text is x
JString(x) == [t |-> "str", x |-> x]

\* the string value of the characters s
JStr(s) == JString(Text(s, NoDoc, <<>>))

JArr(items) == [t |-> "arr", items |-> items]

JObj(f) == [t |-> "obj", f |-> f]

\* v.k
Get(v, k) == IF v.t = "obj" /\ k \in DOMAIN v.f THEN v.f[k] ELSE Undefined

\* !!v
Truthy(v) ==
  CASE v.t = "num" -> v.n # 0
    [] v.t = "str" -> v.x # EmptyText
    [] v.t = "bool" -> v.b
    [] v.t \in {"arr", "obj"} -> TRUE
    [] OTHER -> FALSE

\* typeof v
TypeOf(v) ==
  CASE v.t \in {"null", "arr", "obj"} -> "object"
    [] v.t = "num" -> "number"
    [] v.t = "str" -> "string"
    [] v.t = "bool" -> "boolean"
    [] OTHER -> "undefined"

\* Array.isArray(v)
IsArray(v) == v.t = "arr"

\* text.trim()
textTrim(x) ==
  IF x.doc = NoDoc
  THEN Text(trim(x.pre \o x.post), NoDoc, <<>>)
  ELSE Text(trimStart(x.pre), x.doc, trimEnd(x.post))

\* JSON.parse(text): [ok, v]; ok = FALSE is the SyntaxError
JSONparse(x) ==
  IF x.doc.t \notin {"none", "broken"} /\ trim(x.pre) = <<>> /\ trim(x.post) = <<>>
  THEN [ok |-> TRUE, v |-> x.doc]
  ELSE [ok |-> FALSE, v |-> Undefined]

\* the document holds a brace
HasBraces(doc) ==
  \/ doc.t \in {"obj", "broken"}
  \/ doc.t = "arr" /\ \E i \in 1..Len(doc.items) : doc.items[i].t \in {"obj", "broken"}

\* text.slice(text.indexOf("{"), text.lastIndexOf("}") + 1), as a text: the
\* object itself, the one object of an array that holds one, and otherwise
\* text that is not well-formed
braceSlice(x) ==
  IF x.doc.t = "obj" THEN Text(<<>>, x.doc, <<>>)
  ELSE IF x.doc.t = "arr"
          /\ Cardinality({i \in 1..Len(x.doc.items) : HasBraces(x.doc.items[i])}) = 1
          /\ \E i \in 1..Len(x.doc.items) : x.doc.items[i].t = "obj"
       THEN Text(<<>>,
                 x.doc.items[CHOOSE i \in 1..Len(x.doc.items) : x.doc.items[i].t = "obj"],
                 <<>>)
       ELSE Text(<<>>, Broken, <<>>)

(***************************************************************************)
(* src/api/intake.js: JSON hardening and the proposal generator             *)
(***************************************************************************)
\* lines 59-66; null is JNull
extractFirstJsonObject(text) ==
  IF text = EmptyText THEN JNull
  ELSE IF ~HasBraces(text.doc) THEN JNull
  ELSE LET p == JSONparse(braceSlice(text))
       IN  IF p.ok THEN p.v ELSE JNull

\* lines 73-78, for one element t of obj.tiers
tierShapeOk(t) ==
  /\ Truthy(t) /\ TypeOf(t) = "object"
  /\ Truthy(Get(t, "name")) /\ TypeOf(Get(t, "name")) = "string"
  /\ TypeOf(Get(t, "price_monthly")) = "number"
  /\ IsArray(Get(t, "scope"))

\* mutant: the length of tiers is not checked
validateProposalShapeAnyLength(obj) ==
  /\ Truthy(obj) /\ TypeOf(obj) = "object"
  /\ Truthy(Get(obj, "executive_summary"))
  /\ TypeOf(Get(obj, "executive_summary")) = "string"
  /\ IsArray(Get(obj, "tiers"))
  /\ \A i \in 1..Len(Get(obj, "tiers").items) : tierShapeOk(Get(obj, "tiers").items[i])

\* lines 68-80
validateProposalShape(obj) ==
  /\ Truthy(obj) /\ TypeOf(obj) = "object"
  /\ Truthy(Get(obj, "executive_summary"))
  /\ TypeOf(Get(obj, "executive_summary")) = "string"
  /\ IsArray(Get(obj, "tiers")) /\ Len(Get(obj, "tiers").items) = 3
  /\ \A i \in 1..Len(Get(obj, "tiers").items) : tierShapeOk(Get(obj, "tiers").items[i])

\* lines 194 and 211: try { obj = JSON.parse(t) } catch { obj = extractFirstJsonObject(t) }
parseOrExtract(t) ==
  LET p == JSONparse(t)
  IN  IF p.ok THEN p.v ELSE extractFirstJsonObject(t)

\* An answer of the generation API: [ok, text]; ok = FALSE is a failed call
\* (generateContent rejects).
Answer(text) == [ok |-> TRUE, text |-> text]

ApiFailure == [ok |-> FALSE, text |-> EmptyText]

\* the outcome of one call of generateProposalStrict; calls counts the calls
\* of model.generateContent, embedded is the text put into the repair prompt
\* (line 203), hasRaws says that the error carries raw1 and raw2
Returned(obj, raw, calls, embedded) ==
  [outcome |-> "returned", obj |-> obj, raw |-> raw, calls |-> calls,
   embedded |-> embedded,
   error |-> "", hasRaws |-> FALSE, raw1 |-> EmptyText, raw2 |-> EmptyText]

Threw(error, calls, embedded, hasRaws, raw1, raw2) ==
  [outcome |-> "threw", obj |-> Undefined, raw |-> EmptyText, calls |-> calls,
   embedded |-> embedded,
   error |-> error, hasRaws |-> hasRaws, raw1 |-> raw1, raw2 |-> raw2]

\* mutant: a refused repair output is followed by another repair call
generateProposalRetrying(apiKey, a1, a2) ==
  IF ~apiKey THEN Threw("GEMINI_API_KEY missing", 0, EmptyText, FALSE, EmptyText, EmptyText)
  ELSE IF ~a1.ok THEN Threw("generateContent failed", 1, EmptyText, FALSE, EmptyText, EmptyText)
  ELSE
    LET t1 == textTrim(a1.text)
        obj1 == parseOrExtract(t1)
    IN  IF Truthy(obj1) /\ validateProposalShape(obj1) THEN Returned(obj1, t1, 1, EmptyText)
        ELSE IF ~a2.ok THEN Threw("generateContent failed", 3, t1, FALSE, EmptyText, EmptyText)
        ELSE
          LET t2 == textTrim(a2.text)
              obj2 == parseOrExtract(t2)
          IN  IF Truthy(obj2) /\ validateProposalShape(obj2) THEN Returned(obj2, t2, 2, t1)
              ELSE Threw("Gemini returned non-JSON proposal", 3, t2, TRUE, t1, t2)

\* lines 169-219.  apiKey: GEMINI_API_KEY is set; a1, a2: what the generation
\* API answers to the first call and to the repair call.
generateProposalStrict(apiKey, a1, a2) ==
  IF ~apiKey THEN Threw("GEMINI_API_KEY missing", 0, EmptyText, FALSE, EmptyText, EmptyText)
  ELSE IF ~a1.ok THEN Threw("generateContent failed", 1, EmptyText, FALSE, EmptyText, EmptyText)
  ELSE
    LET t1 == textTrim(a1.text)
        obj1 == parseOrExtract(t1)
    IN  IF Truthy(obj1) /\ validateProposalShape(obj1) THEN Returned(obj1, t1, 1, EmptyText)
        ELSE IF ~a2.ok THEN Threw("generateContent failed", 2, t1, FALSE, EmptyText, EmptyText)
        ELSE
          LET t2 == textTrim(a2.text)
              obj2 == parseOrExtract(t2)
          IN  IF Truthy(obj2) /\ validateProposalShape(obj2) THEN Returned(obj2, t2, 2, t1)
              ELSE Threw("Gemini returned non-JSON proposal", 2, t1, TRUE, t1, t2)

(***************************************************************************)
(* What the generation API may answer to a proposal prompt.                 *)
(***************************************************************************)
Tier(name, price) ==
  JObj([name |-> JStr(name), price_monthly |-> price, activation_fee |-> JNum(500),
        scope |-> JArr(<<JStr(<<"C", "R", "M">>)>>)])

Ignite == Tier(<<"I", "g", "n", "i", "t", "e">>, JNum(950))

Elevate == Tier(<<"E", "l", "e", "v", "a", "t", "e">>, JNum(1450))

Luminary == Tier(<<"L", "u", "m", "i", "n", "a", "r", "y">>, JNum(2250))

Proposal(summary, tiers) ==
  JObj([executive_summary |-> summary, tiers |-> tiers,
        next_steps |-> JArr(<<JStr(<<"C", "a", "l", "l">>)>>)])

GoodProposal == Proposal(JStr(<<"P", "l", "a", "n">>), JArr(<<Ignite, Elevate, Luminary>>))

ProposalTexts ==
  { Text(<<>>, GoodProposal, <<>>),
    Text(<<"H", "e", "r", "e", ":", " ">>, GoodProposal, <<" ", "o", "k">>),
    Text(<<" ", " ">>, GoodProposal, <<" ">>),
    Text(<<>>, Proposal(JStr(<<"P", "l", "a", "n">>), JArr(<<Ignite, Elevate>>)), <<>>),
    Text(<<>>, Proposal(JStr(<<"P", "l", "a", "n">>),
                        JArr(<<Ignite, Elevate, Luminary, Tier(<<"E", "x", "t", "r", "a">>, JNum(1))>>)), <<>>),
    Text(<<>>, Proposal(JStr(<<"P", "l", "a", "n">>),
                        JArr(<<Ignite, Tier(<<"E", "l", "e", "v", "a", "t", "e">>, JStr(<<"1", "4", "5", "0">>)), Luminary>>)), <<>>),
    Text(<<>>, Proposal(JStr(<<>>), JArr(<<Ignite, Elevate, Luminary>>)), <<>>),
    Text(<<>>, Proposal(JStr(<<"P", "l", "a", "n">>), JObj([a |-> Ignite, b |-> Elevate, c |-> Luminary])), <<>>),
    Text(<<>>, JArr(<<Ignite, Elevate, Luminary>>), <<>>),
    Text(<<>>, JArr(<<GoodProposal>>), <<>>),
    Text(<<"S", "u", "r", "e", ":", " ">>, JArr(<<GoodProposal>>), <<>>),
    Text(<<>>, JNull, <<>>),
    Text(<<"S", "o", "r", "r", "y">>, NoDoc, <<>>),
    Text(<<>>, Broken, <<>>),
    EmptyText }

ProposalAnswers == {Answer(x) : x \in ProposalTexts} \cup {ApiFailure}

Idle ==
  [outcome |-> "idle", obj |-> Undefined, raw |-> EmptyText, calls |-> 0,
   embedded |-> EmptyText,
   error |-> "", hasRaws |-> FALSE, raw1 |-> EmptyText, raw2 |-> EmptyText]

(***************************************************************************)
(* src/unnamed/part_001: the dialogue handler that asks the generation API  *)
(***************************************************************************)
ReplyFailsafe ==
  JStr(<<"U", "n", "d", "e", "r", "s", "t", "o", "o", "d", ".", " ", "T", "e",
     "l", "l", " ", "m", "e", " ", "a", " ", "b", "i", "t", " ", "m",
     "o", "r", "e", " ", "s", "o", " ", "I", " ", "c", "a", "n", " ",
     "p", "o", "i", "n", "t", " ", "y", "o", "u", " ", "i", "n", " ",
     "t", "h", "e", " ", "r", "i", "g", "h", "t", " ", "d", "i", "r",
     "e", "c", "t", "i", "o", "n", ".">>)

QuestionFailsafe ==
  JStr(<<"W", "h", "a", "t", " ", "a", "r", "e", " ", "y", "o", "u", " ", "t",
     "r", "y", "i", "n", "g", " ", "t", "o", " ", "a", "c", "h", "i",
     "e", "v", "e", " ", "i", "n", " ", "t", "h", "e", " ", "n", "e",
     "x", "t", " ", "3", "0", " ", "d", "a", "y", "s", "?">>)

IntentNone == JStr(<<"n", "o", "n", "e">>)

IntentAskContact == JStr(<<"a", "s", "k", "_", "c", "o", "n", "t", "a", "c", "t">>)

\* value.trim() of a string value
strTrim(v) == JString(textTrim(v.x))

\* mutant: the failsafes of lines 35-37 are missing
coerceToContractNoFailsafe(raw0) ==
  LET p == IF raw0.t = "str" THEN JSONparse(raw0.x) ELSE [ok |-> FALSE, v |-> Undefined]
      raw == IF p.ok THEN p.v ELSE raw0
      isObj == Truthy(raw) /\ TypeOf(raw) = "object"
  IN  [reply |-> IF isObj /\ TypeOf(Get(raw, "reply")) = "string"
                 THEN strTrim(Get(raw, "reply")) ELSE JStr(<<>>),
       next_question |-> IF isObj /\ TypeOf(Get(raw, "next_question")) = "string"
                         THEN strTrim(Get(raw, "next_question")) ELSE JStr(<<>>),
       capture_intent |-> IF isObj /\ (\/ Get(raw, "capture_intent") = IntentAskContact
                                       \/ Get(raw, "capture_intent") = IntentNone)
                          THEN Get(raw, "capture_intent") ELSE IntentNone]

\* lines 8-40
coerceToContract(raw0) ==
  LET p == IF raw0.t = "str" THEN JSONparse(raw0.x) ELSE [ok |-> FALSE, v |-> Undefined]
      raw == IF p.ok THEN p.v ELSE raw0
      isObj == Truthy(raw) /\ TypeOf(raw) = "object"
      reply == IF isObj /\ TypeOf(Get(raw, "reply")) = "string"
               THEN strTrim(Get(raw, "reply")) ELSE JStr(<<>>)
      question == IF isObj /\ TypeOf(Get(raw, "next_question")) = "string"
                  THEN strTrim(Get(raw, "next_question")) ELSE JStr(<<>>)
      intent == IF isObj /\ (\/ Get(raw, "capture_intent") = IntentAskContact
                             \/ Get(raw, "capture_intent") = IntentNone)
                THEN Get(raw, "capture_intent") ELSE IntentNone
  IN  [reply |-> IF Truthy(reply) THEN reply ELSE ReplyFailsafe,
       next_question |-> IF Truthy(question) THEN question ELSE QuestionFailsafe,
       capture_intent |-> IF Truthy(intent) THEN intent ELSE IntentNone]

\* lines 115-124: the text between the first and the last brace (the whole
\* text when it has none) parsed, or the fallback object of the catch
parseReply(text) ==
  LET jsonSlice == IF HasBraces(text.doc) THEN braceSlice(text) ELSE text
      p == JSONparse(jsonSlice)
  IN  IF p.ok THEN p.v
      ELSE JObj([reply |-> IF text # EmptyText THEN JString(text)
                            ELSE JStr(<<"U", "n", "d", "e", "r", "s", "t", "o", "o", "d", ".">>),
                 next_question |-> QuestionFailsafe,
                 capture_intent |-> IntentNone])

\* a response: status, then the members of the JSON body (Undefined: none)
ChatResponse(status, reply, question, intent, error) ==
  [status |-> status, reply |-> reply, next_question |-> question,
   capture_intent |-> intent, error |-> error]

ChatError(status, error) ==
  ChatResponse(status, Undefined, Undefined, Undefined, error)

\* lines 42-135.  req: [method, message]; hasKey: GEMINI_API_KEY is set;
\* a: the answer of the generation API.
chatHandler(req, hasKey, a) ==
  IF req.method = "GET" THEN ChatError(200, "")
  ELSE IF req.method # "POST" THEN ChatError(405, "Method not allowed")
  ELSE IF ~hasKey THEN ChatError(500, "Missing GEMINI_API_KEY")
  ELSE IF trim(req.message) = <<>> THEN ChatError(400, "Missing message")
  ELSE IF ~a.ok THEN ChatError(500, "Zion execution failed")
  ELSE LET contract == coerceToContract(parseReply(a.text))
       IN  ChatResponse(200, contract.reply, contract.next_question,
                        contract.capture_intent, "")

(***************************************************************************)
(* What the generation API may answer to a dialogue prompt.                 *)
(***************************************************************************)
Contract(reply, question, intent) ==
  JObj([reply |-> reply, next_question |-> question, capture_intent |-> intent])

ChatTexts ==
  { Text(<<>>, Contract(JStr(<<"H", "i">>), JStr(<<"G", "o", "a", "l", "?">>), IntentNone), <<>>),
    Text(<<>>, Contract(JStr(<<"H", "i">>), JStr(<<"E", "m", "a", "i", "l", "?">>), IntentAskContact), <<>>),
    Text(<<"j", "s", "o", "n", " ">>, Contract(JStr(<<" ", "H", "i", " ">>), JStr(<<" ", " ">>), JStr(<<"l", "a", "t", "e", "r">>)), <<" ", ".">>),
    Text(<<>>, JObj([reply |-> JNum(1), capture_intent |-> IntentAskContact]), <<>>),
    Text(<<>>, JArr(<<Contract(JStr(<<"H", "i">>), JStr(<<"E", "m", "a", "i", "l", "?">>), IntentAskContact)>>), <<>>),
    Text(<<>>, JNull, <<>>),
    Text(<<"S", "u", "r", "e", ".">>, NoDoc, <<>>),
    Text(<<" ", " ">>, NoDoc, <<>>),
    Text(<<>>, Broken, <<>>),
    EmptyText }

ChatAnswers == {Answer(x) : x \in ChatTexts} \cup {ApiFailure}

ChatMethods == {"POST", "GET", "PUT"}

\* body.message values: "", "  ", "need leads"
ChatMessages == { <<>>, <<" ", " ">>, <<"n", "e", "e", "d", " ", "l", "e", "a", "d", "s">> }

NoChat ==
  [req |-> [method |-> "", message |-> <<>>], hasKey |-> FALSE,
   ansA |-> ApiFailure, ansB |-> ApiFailure,
   respA |-> ChatError(0, ""), respB |-> ChatError(0, "")]

(***************************************************************************)
(* JavaScript helpers of the intake and fetch handlers.                     *)
(***************************************************************************)
JBool(b) == [t |-> "bool", b |-> b]

\* the characters of a string value that holds no document
CharsOf(v) == v.x.pre \o v.x.post

\* the length of the leading run of characters of u that are not white space
WordEnd(u) ==
  IF \E i \in 1..Len(u) : IsSpace(u[i])
  THEN (CHOOSE i \in 1..Len(u) : IsSpace(u[i]) /\ \A j \in 1..(i - 1) : ~IsSpace(u[j])) - 1
  ELSE Len(u)

\* s.split(/\s+/).filter(Boolean)
RECURSIVE splitWords(_)
splitWords(s) ==
  LET u == trimStart(s)
  IN  IF u = <<>> THEN <<>>
      ELSE <<SubSeq(u, 1, WordEnd(u))>> \o splitWords(SubSeq(u, WordEnd(u) + 1, Len(u)))

\* words.join(" ")
RECURSIVE joinWords(_)
joinWords(ws) ==
  IF ws = <<>> THEN <<>>
  ELSE IF Len(ws) = 1 THEN ws[1]
  ELSE ws[1] \o <<" ">> \o joinWords(Tail(ws))

\* (v || "").trim(): [ok, s]; ok = FALSE is the TypeError of a truthy value
\* that is not a string
orEmptyTrim(v) ==
  IF ~Truthy(v) THEN [ok |-> TRUE, s |-> <<>>]
  ELSE IF v.t = "str" THEN [ok |-> TRUE, s |-> trim(CharsOf(v))]
  ELSE [ok |-> FALSE, s |-> <<>>]

\* v || d
orElse(v, d) == IF Truthy(v) THEN v ELSE d

\* JSON.stringify(v): members that are undefined are left out, an undefined
\* array element is written as null; the result is a text that holds the
\* written document and nothing else
RECURSIVE jsonOf(_)
jsonOf(v) ==
  CASE v.t = "obj" ->
         JObj([k \in {m \in DOMAIN v.f : v.f[m].t # "undefined"} |-> jsonOf(v.f[k])])
    [] v.t = "arr" ->
         JArr([i \in 1..Len(v.items) |->
                 IF v.items[i].t = "undefined" THEN JNull ELSE jsonOf(v.items[i])])
    [] OTHER -> v

JSONstringify(v) == Text(<<>>, jsonOf(v), <<>>)

\* new Date().toISOString()
IsoNow == JStr(<<"2", "0", "2", "6", "-", "0", "1", "-", "0", "1", "T", "0", "0", ":", "0", "0", ":", "0", "0", ".", "0", "0", "0", "Z">>)

(***************************************************************************)
(* The key-value store (Upstash/Vercel KV over REST).  A key is the pair    *)
(* <<namespace, id>> of the string `${namespace}:${id}`.  An entry holds    *)
(* the stored string and whether an expiry was set on it.                   *)
(***************************************************************************)
Key(ns, id) == <<ns, id>>

NoEntry == [present |-> FALSE, val |-> EmptyText, expires |-> FALSE, ttl |-> 0]

Entry(val, expires, ttl) == [present |-> TRUE, val |-> val, expires |-> expires, ttl |-> ttl]

\* src/api/intake.js lines 30-43, src/api/proposal.js lines 17-36: the
\* pipeline request fails when the store is not configured (kvEnv) or when
\* the HTTP call does not succeed (kvUp)
kvPipeline(kvEnv, kvUp) ==
  IF ~kvEnv THEN [ok |-> FALSE, error |-> <<"K", "V", " ", "e", "n", "v", " ", "n", "o", "t", " ", "s", "e", "t">>]
  ELSE IF ~kvUp THEN [ok |-> FALSE, error |-> <<"K", "V", " ", "p", "i", "p", "e", "l", "i", "n", "e", " ", "f", "a", "i", "l", "e", "d">>]
  ELSE [ok |-> TRUE, error |-> <<>>]

\* src/api/intake.js lines 45-51: SET key val, then EXPIRE key ttl, in one
\* pipeline; [ok, error, writes]
kvSetJson(key, obj, ttlSeconds, kvEnv, kvUp) ==
  LET p == kvPipeline(kvEnv, kvUp)
  IN  [ok |-> p.ok, error |-> p.error,
       writes |-> IF p.ok THEN <<[key |-> key,
                                  entry |-> Entry(JSONstringify(obj), TRUE, ttlSeconds)]>>
                  ELSE <<>>]

\* c.toUpperCase() for a hexadecimal digit
UpperHex(c) ==
  CASE c = "a" -> "A" [] c = "b" -> "B" [] c = "c" -> "C"
    [] c = "d" -> "D" [] c = "e" -> "E" [] c = "f" -> "F"
    [] OTHER -> c

\* src/api/intake.js lines 53-56.  fraction: the hexadecimal digits that
\* Math.random().toString(16) writes after "0."
makePid(fraction) ==
  LET s == SubSeq(fraction, 1, IF Len(fraction) < 8 THEN Len(fraction) ELSE 8)
  IN  [i \in 1..Len(s) |-> UpperHex(s[i])]

(***************************************************************************)
(* src/api/intake.js: the intake handler (forward, generate, persist).     *)
(* A handler run yields [resp, posted, gen, outputs, writes, steps]: the    *)
(* response, the payloads POSTed to the CRM webhook, the outcome of         *)
(* generateProposalStrict, the answers the generation API gave to its       *)
(* calls, the entries written to the store, and the external calls in the   *)
(* order they were made.                                                    *)
(***************************************************************************)
NoId == <<>>

\* json(res, status, {ok: true, ...}) and bad(res, status, msg)
IntakeOk(pid, proposal_id, redirect_url) ==
  [status |-> 200, ok |-> TRUE, pid |-> pid, proposal_id |-> proposal_id,
   redirect_url |-> redirect_url, error |-> <<>>]

bad(status, msg) ==
  [status |-> status, ok |-> FALSE, pid |-> NoId, proposal_id |-> NoId,
   redirect_url |-> <<>>, error |-> msg]

\* an exception that leaves the handler: the platform answers 500
Uncaught(msg) == bad(500, msg)

Step(op, ok) == [op |-> op, ok |-> ok]

Run(resp, posted, gen, outputs, writes, steps) ==
  [resp |-> resp, posted |-> posted, gen |-> gen, outputs |-> outputs,
   writes |-> writes, steps |-> steps]

\* lines 22-28.  raw: the request body as a text
readJson(raw) ==
  IF raw = EmptyText THEN JObj(<<>>)
  ELSE LET p == JSONparse(raw) IN IF p.ok THEN p.v ELSE JNull

\* lines 226-240: [ok, payload]; ok = FALSE is the TypeError of a member
\* that is truthy and not a string
ghlPayload(payload) ==
  LET full == orEmptyTrim(Get(payload, "full_name"))
      parts == splitWords(full.s)
      email == orEmptyTrim(Get(payload, "email"))
      phone == orEmptyTrim(Get(payload, "phone"))
  IN  [ok |-> full.ok /\ email.ok /\ phone.ok,
       payload |->
         JObj([first_name |-> JStr(IF parts = <<>> THEN <<>> ELSE parts[1]),
               last_name |-> JStr(IF parts = <<>> THEN <<>> ELSE joinWords(Tail(parts))),
               email |-> JStr(email.s),
               phone |-> JStr(phone.s),
               intent |-> orElse(Get(payload, "intent"), JStr(<<"Z", "i", "o", "n", " ", "A", "c", "t", "i", "v", "a", "t", "i", "o", "n">>)),
               conversation_summary |-> orElse(Get(payload, "conversation_summary"), JStr(<<>>)),
               source |-> JStr(<<"Z", "i", "o", "n", " ", "O", "n", "-", "P", "a", "g", "e", " ", "I", "n", "t", "e", "l", "l", "i", "g", "e", "n", "c", "e">>),
               page_url |-> orElse(Get(payload, "page_url"), JStr(<<>>))])]

\* mutant: forwarding is best effort, a failure is not reported to the caller
sendToGHLBestEffort(payload, ghlUrl, hookOk) ==
  IF ~ghlUrl THEN [ok |-> TRUE, error |-> <<>>, posted |-> <<>>]
  ELSE [ok |-> TRUE, error |-> <<>>,
        posted |-> <<JSONparse(JSONstringify(ghlPayload(payload).payload)).v>>]

\* lines 221-254.  ghlUrl: GHL_WEBHOOK_URL is set; hookOk: the webhook
\* answers with a success status.  [ok, error, posted]
sendToGHL(payload, ghlUrl, hookOk) ==
  IF ~ghlUrl THEN [ok |-> FALSE, error |-> <<"G", "H", "L", "_", "W", "E", "B", "H", "O", "O", "K", "_", "U", "R", "L", " ", "m", "i", "s", "s", "i", "n", "g">>, posted |-> <<>>]
  ELSE LET g == ghlPayload(payload)
       IN  IF ~g.ok THEN [ok |-> FALSE, error |-> <<"t", "r", "i", "m", " ", "i", "s", " ", "n", "o", "t", " ", "a", " ", "f", "u", "n", "c", "t", "i", "o", "n">>, posted |-> <<>>]
           ELSE IF ~hookOk
                THEN [ok |-> FALSE, error |-> <<"G", "H", "L", " ", "w", "e", "b", "h", "o", "o", "k", " ", "f", "a", "i", "l", "e", "d">>,
                      posted |-> <<JSONparse(JSONstringify(g.payload)).v>>]
                ELSE [ok |-> TRUE, error |-> <<>>,
                      posted |-> <<JSONparse(JSONstringify(g.payload)).v>>]

\* mutant: when the handler fails, a stand-in proposal is stored and returned
intakeFailedSynthetic(body, pid, error, gen, outputs, env, kvUp, posted, steps) ==
  LET put == kvSetJson(Key("proposal", pid),
                       JObj([pid |-> JStr(pid), created_at |-> IsoNow, intake |-> body,
                             proposal |-> GoodProposal]),
                       1800, env.kv, kvUp)
  IN  Run(IntakeOk(pid, NoId, <<"/", "s", "u", "m", "m", "a", "r", "y", "?", "p", "i", "d", "=">> \o pid), posted, gen, outputs,
          put.writes, steps \o <<Step("put", put.ok)>>)

\* lines 295-313: the catch branch.  The failure record is written under
\* proposal_fail:<pid> when the store takes it, and the response is 500.
intakeFailed(body, pid, error, gen, outputs, env, kvUp, posted, steps) ==
  LET put == kvSetJson(Key("proposal_fail", pid),
                       JObj([pid |-> JStr(pid), created_at |-> IsoNow, intake |-> body,
                             error |-> JStr(error),
                             raw1 |-> IF gen.hasRaws THEN orElse(JString(gen.raw1), JNull) ELSE JNull,
                             raw2 |-> IF gen.hasRaws THEN orElse(JString(gen.raw2), JNull) ELSE JNull]),
                       1800, env.kv, kvUp)
  IN  Run(bad(500, error), posted, gen, outputs, put.writes,
          steps \o <<Step("put_fail", put.ok)>>)

\* lines 256-314.  req: [method, body]; env: [ghl, kv] say which of
\* GHL_WEBHOOK_URL and KV_REST_API_URL/KV_REST_API_TOKEN are set; key:
\* GEMINI_API_KEY is set; hookOk, kvUp: the webhook and the store answer with
\* success; a1, a2: the answers of the generation API; fraction: the draw of
\* Math.random().
intakeHandler(req, env, key, hookOk, kvUp, a1, a2, fraction) ==
  IF req.method = "OPTIONS" THEN Run(IntakeOk(NoId, NoId, <<>>), <<>>, Idle, <<>>, <<>>, <<>>)
  ELSE IF req.method # "POST" THEN Run(bad(405, <<"U", "s", "e", " ", "P", "O", "S", "T">>), <<>>, Idle, <<>>, <<>>, <<>>)
  ELSE
    LET body == readJson(req.body)
        email == orEmptyTrim(Get(body, "email"))
        pid == makePid(fraction)
    IN  IF ~Truthy(body) THEN Run(bad(400, <<"I", "n", "v", "a", "l", "i", "d", " ", "J", "S", "O", "N", " ", "b", "o", "d", "y">>), <<>>, Idle, <<>>, <<>>, <<>>)
        ELSE IF ~email.ok
             THEN Run(Uncaught(<<"t", "r", "i", "m", " ", "i", "s", " ", "n", "o", "t", " ", "a", " ", "f", "u", "n", "c", "t", "i", "o", "n">>), <<>>, Idle, <<>>, <<>>, <<>>)
        ELSE IF email.s = <<>> THEN Run(bad(400, <<"M", "i", "s", "s", "i", "n", "g", " ", "e", "m", "a", "i", "l">>), <<>>, Idle, <<>>, <<>>, <<>>)
        ELSE
          LET hook == sendToGHL(body, env.ghl, hookOk)
              hookSteps == IF hook.posted = <<>> THEN <<>> ELSE <<Step("webhook", hook.ok)>>
          IN  IF ~hook.ok
              THEN intakeFailed(body, pid, hook.error, Idle, <<>>, env, kvUp, hook.posted,
                                hookSteps)
              ELSE
                LET gen == generateProposalStrict(key, a1, a2)
                    outputs == SubSeq(<<a1, a2>>, 1, gen.calls)
                    genSteps == [i \in 1..gen.calls |-> Step("generate", outputs[i].ok)]
                IN  IF gen.outcome = "threw"
                    THEN intakeFailed(body, pid, gen.error, gen, outputs, env, kvUp,
                                      hook.posted, hookSteps \o genSteps)
                    ELSE
                      LET record == JObj([pid |-> JStr(pid), created_at |-> IsoNow,
                                          intake |-> body, proposal |-> gen.obj])
                          put == kvSetJson(Key("proposal", pid), record, 1800, env.kv, kvUp)
                      IN  IF ~put.ok
                          THEN intakeFailed(body, pid, put.error, gen, outputs, env, kvUp,
                                            hook.posted,
                                            hookSteps \o genSteps \o <<Step("put", FALSE)>>)
                          ELSE Run(IntakeOk(pid, NoId, <<"/", "s", "u", "m", "m", "a", "r", "y", "?", "p", "i", "d", "=">> \o pid),
                                   hook.posted, gen, outputs, put.writes,
                                   hookSteps \o genSteps \o <<Step("put", TRUE)>>)

(***************************************************************************)
(* src/unnamed/part_000: the V2 intake handler (forward, then store when    *)
(* the store is configured).                                                *)
(***************************************************************************)
\* the decimal digits of a natural number
RECURSIVE DigitsOf(_)
DigitsOf(n) ==
  LET d == <<"0", "1", "2", "3", "4", "5", "6", "7", "8", "9">>[(n % 10) + 1]
  IN  IF n < 10 THEN <<d>> ELSE DigitsOf(n \div 10) \o <<d>>

\* String(v) for a value that is not null or undefined
RECURSIVE StringOf(_)
StringOf(v) ==
  CASE v.t = "str" -> CharsOf(v)
    [] v.t = "num" -> IF v.n < 0 THEN <<"-">> \o DigitsOf(0 - v.n) ELSE DigitsOf(v.n)
    [] v.t = "bool" -> IF v.b THEN <<"t", "r", "u", "e">> ELSE <<"f", "a", "l", "s", "e">>
    [] v.t = "arr" ->
         IF v.items = <<>> THEN <<>>
         ELSE LET h == IF v.items[1].t \in {"null", "undefined"} THEN <<>>
                       ELSE StringOf(v.items[1])
              IN  IF Len(v.items) = 1 THEN h
                  ELSE h \o <<",">> \o StringOf(JArr(Tail(v.items)))
    [] OTHER -> <<"[", "o", "b", "j", "e", "c", "t", " ", "O", "b", "j", "e", "c", "t", "]">>

\* lines 28-31
safeString(x, max) ==
  LET s == IF x.t \in {"null", "undefined"} THEN <<>> ELSE StringOf(x)
  IN  IF Len(s) > max THEN SubSeq(s, 1, max) ELSE s

\* the clients that submit intakes
Clients == {"c1", "c2"}

\* lines 33-41.  draw: [crypto, uuid, millis, fraction]: whether
\* crypto.randomUUID exists, what it returns, Date.now() and the hexadecimal
\* digits of Math.random()
makeId(draw) ==
  IF draw.crypto THEN draw.uuid
  ELSE <<"p", "_">> \o draw.millis \o <<"_">> \o draw.fraction

\* what makeId may draw for the request of client c: crypto.randomUUID()
\* returns a value it returns to no other request; without it the id is made
\* of the clock and of Math.random(), which two requests may share
Uuid(c) ==
  IF c = "c1" THEN <<"1", "b", "4", "e", "2", "8", "b", "a", "-", "2", "f", "a", "1", "-", "4", "d", "3", "b", "-", "8", "8", "3", "f", "-", "0", "0", "1", "6", "d", "3", "c", "c", "a", "4", "2", "7">>
  ELSE <<"9", "c", "5", "b", "9", "4", "b", "1", "-", "3", "5", "a", "d", "-", "4", "9", "b", "b", "-", "b", "1", "1", "8", "-", "8", "e", "8", "f", "c", "2", "4", "a", "b", "f", "8", "0">>

Draws(c) ==
  { [crypto |-> TRUE, uuid |-> Uuid(c), millis |-> <<>>, fraction |-> <<>>],
    [crypto |-> FALSE, uuid |-> <<>>,
     millis |-> <<"1", "7", "6", "7", "2", "2", "5", "6", "0", "0", "0", "0", "0">>, fraction |-> <<"a", "1", "b", "2", "c", "3", "d", "4", "e", "5", "f", "6", "0">>] }

\* line 170: Number(process.env.PROPOSAL_TTL_SECONDS || "604800");
\* setting: the characters of the variable, <<>> when it is not set;
\* [nan, n]
proposalTtl(setting) ==
  LET s == IF setting = <<>> THEN <<"6", "0", "4", "8", "0", "0">> ELSE setting
      t == trim(s)
  IN  IF t = <<>> THEN [nan |-> FALSE, n |-> 0]
      ELSE IF \A i \in 1..Len(t) : IsDigit(t[i]) THEN [nan |-> FALSE, n |-> DigitsToNumber(t)]
      ELSE [nan |-> TRUE, n |-> 0]

\* lines 67-73: SET key value EX ttl when ttlSeconds is truthy, SET key value
\* otherwise; [ok, error, writes]
kvSetJsonV2(key, obj, ttlSeconds, kvEnv, kvUp) ==
  LET p == kvPipeline(kvEnv, kvUp)
      expires == ~ttlSeconds.nan /\ ttlSeconds.n # 0
  IN  [ok |-> p.ok, error |-> p.error,
       writes |-> IF p.ok THEN <<[key |-> key,
                                  entry |-> Entry(JSONstringify(obj), expires,
                                                  IF expires THEN ttlSeconds.n ELSE 0)]>>
                  ELSE <<>>]

\* lines 102-121
canonicalRecord(payload, proposal_id) ==
  JObj([proposal_id |-> JStr(proposal_id),
        created_at |-> IsoNow,
        session_id |-> JStr(safeString(Get(payload, "session_id"), 120)),
        source |-> orElse(JStr(safeString(Get(payload, "source"), 220)), JStr(<<"Z", "i", "o", "n", " ", "I", "n", "t", "a", "k", "e">>)),
        intake |-> JObj([name |-> JStr(safeString(Get(payload, "name"), 180)),
                         email |-> JStr(safeString(Get(payload, "email"), 180)),
                         business |-> JStr(safeString(Get(payload, "business"), 220)),
                         website |-> JStr(safeString(Get(payload, "website"), 220)),
                         industry |-> JStr(safeString(Get(payload, "industry"), 120)),
                         goal |-> JStr(safeString(Get(payload, "goal"), 120)),
                         budget |-> JStr(safeString(Get(payload, "budget"), 60)),
                         timeline |-> JStr(safeString(Get(payload, "timeline"), 60)),
                         bottleneck |-> JStr(safeString(Get(payload, "bottleneck"), 1500))]),
        zion_notes |-> orElse(Get(payload, "zion_notes"), JNull),
        executive_intake_summary |->
          JStr(safeString(Get(payload, "executive_intake_summary"), 12000)),
        proposal |-> orElse(Get(payload, "proposal"), JNull)])

\* lines 129-150
ghPayload(record) ==
  LET intake == Get(record, "intake")
  IN  JObj([name |-> Get(intake, "name"),
            email |-> Get(intake, "email"),
            business |-> Get(intake, "business"),
            website |-> Get(intake, "website"),
            industry |-> Get(intake, "industry"),
            goal |-> Get(intake, "goal"),
            budget |-> Get(intake, "budget"),
            timeline |-> Get(intake, "timeline"),
            bottleneck |-> Get(intake, "bottleneck"),
            proposal_id |-> Get(record, "proposal_id"),
            session_id |-> Get(record, "session_id"),
            source |-> Get(record, "source"),
            submitted_at |-> Get(record, "created_at"),
            executive_intake_summary |-> Get(record, "executive_intake_summary"),
            zion_notes |-> Get(record, "zion_notes"),
            tags |-> JArr(<<JStr(<<"Z", "i", "o", "n", " ", "I", "n", "t", "a", "k", "e">>), JStr(<<"Z", "i", "o", "n", " ", "P", "r", "o", "p", "o", "s", "a", "l">>)>>)])

\* a handler that reports the failure of the put to the caller
respondAfterStoreStrict(put, proposal_id) ==
  IF put.ok THEN IntakeOk(NoId, proposal_id, <<>>) ELSE bad(500, put.error)

\* lines 171-179: what kvSetJson throws is caught and dropped, and the
\* response is the success response whatever the put did
respondAfterStore(put, proposal_id) == IntakeOk(NoId, proposal_id, <<>>)

\* lines 75-185.  req: [method, body]; env: [ghl, kv, ttl]; hookOk, kvUp: the
\* webhook and the store answer with success; draw: what makeId draws.
intakeHandlerV2(req, env, hookOk, kvUp, draw) ==
  IF req.method = "OPTIONS" THEN Run(IntakeOk(NoId, NoId, <<>>), <<>>, Idle, <<>>, <<>>, <<>>)
  ELSE IF req.method # "POST" THEN Run(bad(405, <<"U", "s", "e", " ", "P", "O", "S", "T">>), <<>>, Idle, <<>>, <<>>, <<>>)
  ELSE
    LET p == IF req.body = EmptyText THEN [ok |-> TRUE, v |-> JObj(<<>>)]
             ELSE JSONparse(req.body)
        payload == p.v
        name == safeString(Get(payload, "name"), 180)
        email == safeString(Get(payload, "email"), 180)
        business == safeString(Get(payload, "business"), 220)
        proposal_id == makeId(draw)
        record == canonicalRecord(payload, proposal_id)
        posted == <<JSONparse(JSONstringify(ghPayload(record))).v>>
        put == kvSetJsonV2(Key("proposal", proposal_id), record, proposalTtl(env.ttl),
                           env.kv, kvUp)
    IN  IF ~p.ok THEN Run(bad(500, <<"U", "n", "e", "x", "p", "e", "c", "t", "e", "d", " ", "t", "o", "k", "e", "n">>), <<>>, Idle, <<>>, <<>>, <<>>)
        ELSE IF ~Truthy(payload) \/ TypeOf(payload) # "object"
             THEN Run(bad(400, <<"I", "n", "v", "a", "l", "i", "d", " ", "J", "S", "O", "N">>), <<>>, Idle, <<>>, <<>>, <<>>)
        ELSE IF name = <<>> \/ email = <<>> \/ business = <<>>
             THEN Run(bad(422, <<"M", "i", "s", "s", "i", "n", "g", " ", "r", "e", "q", "u", "i", "r", "e", "d", " ", "f", "i", "e", "l", "d", "s", ":", " ", "n", "a", "m", "e", ",", " ", "e", "m", "a", "i", "l", ",", " ", "b", "u", "s", "i", "n", "e", "s", "s">>),
                      <<>>, Idle, <<>>, <<>>, <<>>)
        ELSE IF ~env.ghl
             THEN Run(bad(500, <<"M", "i", "s", "s", "i", "n", "g", " ", "e", "n", "v", " ", "v", "a", "r", ":", " ", "G", "H", "L", "_", "W", "E", "B", "H", "O", "O", "K", "_", "U", "R", "L">>), <<>>, Idle, <<>>, <<>>, <<>>)
        ELSE IF ~hookOk
             THEN Run(bad(502, <<"G", "H", "L", " ", "w", "e", "b", "h", "o", "o", "k", " ", "r", "e", "j", "e", "c", "t", "e", "d", " ", "t", "h", "e", " ", "r", "e", "q", "u", "e", "s", "t">>), posted, Idle, <<>>, <<>>,
                      <<Step("webhook", FALSE)>>)
        ELSE IF ~env.kv
             THEN Run(IntakeOk(NoId, proposal_id, <<>>), posted, Idle, <<>>, <<>>,
                      <<Step("webhook", TRUE)>>)
        ELSE Run(respondAfterStore(put, proposal_id), posted, Idle, <<>>, put.writes,
                 <<Step("webhook", TRUE), Step("put", put.ok)>>)

(***************************************************************************)
(* src/api/proposal.js: fetch of a stored proposal by pid.                  *)
(***************************************************************************)
FetchResponse(status, ok, record, error) ==
  [status |-> status, ok |-> ok, record |-> record, error |-> error]

\* lines 38-44.  entry: what the store holds under the key.  [ok, error, v]
kvGetJson(entry, kvEnv, kvUp) ==
  LET p == kvPipeline(kvEnv, kvUp)
      parsed == JSONparse(entry.val)
  IN  IF ~p.ok THEN [ok |-> FALSE, error |-> p.error, v |-> JNull]
      ELSE IF ~entry.present \/ entry.val = EmptyText THEN [ok |-> TRUE, error |-> <<>>, v |-> JNull]
      ELSE IF parsed.ok THEN [ok |-> TRUE, error |-> <<>>, v |-> parsed.v]
      ELSE [ok |-> TRUE, error |-> <<>>, v |-> JNull]

\* mutant: the fetch reads the key summary:<pid>
proposalHandlerOtherKey(req, store, kvEnv, kvUp) ==
  IF req.method = "OPTIONS" THEN FetchResponse(200, TRUE, Undefined, <<>>)
  ELSE IF req.method # "GET" THEN FetchResponse(405, FALSE, Undefined, <<"U", "s", "e", " ", "G", "E", "T">>)
  ELSE
    LET pid == trim(req.pid)
        got == kvGetJson(IF Key("summary", pid) \in DOMAIN store
                         THEN store[Key("summary", pid)] ELSE NoEntry,
                         kvEnv, kvUp)
    IN  IF pid = <<>> THEN FetchResponse(400, FALSE, Undefined, <<"M", "i", "s", "s", "i", "n", "g", " ", "p", "i", "d">>)
        ELSE IF ~got.ok THEN FetchResponse(500, FALSE, Undefined, got.error)
        ELSE IF ~Truthy(got.v)
             THEN FetchResponse(404, FALSE, Undefined,
                                <<"P", "r", "o", "p", "o", "s", "a", "l", " ", "n", "o", "t", " ", "f", "o", "u", "n", "d", " ", "(", "e", "x", "p", "i", "r", "e", "d", " ", "o", "r", " ", "i", "n", "v", "a", "l", "i", "d", " ", "p", "i", "d", ")">>)
        ELSE FetchResponse(200, TRUE, jsonOf(got.v), <<>>)

\* lines 46-66.  req: [method, pid], pid the characters of the query
\* parameter (<<>> when it is missing); store: the key-value store.
proposalHandler(req, store, kvEnv, kvUp) ==
  IF req.method = "OPTIONS" THEN FetchResponse(200, TRUE, Undefined, <<>>)
  ELSE IF req.method # "GET" THEN FetchResponse(405, FALSE, Undefined, <<"U", "s", "e", " ", "G", "E", "T">>)
  ELSE
    LET pid == trim(req.pid)
        got == kvGetJson(IF Key("proposal", pid) \in DOMAIN store
                         THEN store[Key("proposal", pid)] ELSE NoEntry,
                         kvEnv, kvUp)
    IN  IF pid = <<>> THEN FetchResponse(400, FALSE, Undefined, <<"M", "i", "s", "s", "i", "n", "g", " ", "p", "i", "d">>)
        ELSE IF ~got.ok THEN FetchResponse(500, FALSE, Undefined, got.error)
        ELSE IF ~Truthy(got.v)
             THEN FetchResponse(404, FALSE, Undefined,
                                <<"P", "r", "o", "p", "o", "s", "a", "l", " ", "n", "o", "t", " ", "f", "o", "u", "n", "d", " ", "(", "e", "x", "p", "i", "r", "e", "d", " ", "o", "r", " ", "i", "n", "v", "a", "l", "i", "d", " ", "p", "i", "d", ")">>)
        ELSE FetchResponse(200, TRUE, jsonOf(got.v), <<>>)

(***************************************************************************)
(* The state: the server keeps none.  Each client session holds the notes   *)
(* and the turn of the last response and resends them verbatim; the last    *)
(* request and the last two responses of each session are recorded.         *)
(***************************************************************************)
VARIABLES
  active,     \* the sessions that talk in this run
  init,       \* init[s]: the notes session s sent on its first turn
  cnotes,     \* cnotes[s]: the notes the client of s holds
  cturn,      \* cturn[s]: the turn the client of s holds
  lastReq,    \* lastReq[s]: the body of the last request of s
  lastResp,   \* lastResp[s]: the response to it
  prevResp,   \* prevResp[s]: the response before that
  nturns,     \* nturns[s]: turns taken by s
  noneCount,  \* noneCount[s]: responses to s with capture_intent = "none"
  clock,      \* the server clock read by nowIso()
  alone,      \* alone[s]: the last response s would hold had its turns run alone
  apiKey,     \* GEMINI_API_KEY is set
  ans1,       \* what the generation API answers to the first proposal prompt
  ans2,       \* what it answers to the repair prompt
  proposal,   \* the outcome of generateProposalStrict
  chat,       \* one request to the part_001 handler, run twice: the two runs
              \* differ only in what the generation API answers
  env,        \* which of the webhook URL and the store credentials are set
  kv,         \* the key-value store: kv[k] is the entry under key k
  writer,     \* writer[k]: the client whose intake wrote kv[k] last
  intake,     \* intake[c]: the intake request of client c and its run
  fetched,    \* the last fetch of a proposal: the request, whether the store
              \* answered, the entry under the key, who wrote it, the response
  probe       \* one call of a pure function: its name, its argument, whether
              \* it has returned, and what it returned

vars ==
  <<active, init, cnotes, cturn, lastReq, lastResp, prevResp, nturns,
    noneCount, clock, alone, apiKey, ans1, ans2, proposal, chat,
    env, kv, writer, intake, fetched, probe>>

dialogueVars ==
  <<active, init, cnotes, cturn, lastReq, lastResp, prevResp, nturns,
    noneCount, clock, alone>>

proposalVars == <<apiKey, ans1, ans2, proposal>>

intakeVars == <<env, kv, writer, intake, fetched>>

\* bounds of the model
MaxTurns == 5

MaxSharedTurns == 3

Sessions == {"s1", ""}

\* body.message values: "", " Ok", "20 leads", "hvac"
Messages == { <<>>, <<" ", "O", "k">>, <<"2", "0", " ", "l", "e", "a", "d", "s">>, <<"h", "v", "a", "c">> }

\* the messages of the two interleaved sessions: " Ok", "20 leads"
SharedMessages == { <<" ", "O", "k">>, <<"2", "0", " ", "l", "e", "a", "d", "s">> }

NoBody == [message |-> <<>>, session_id |-> "", turn |-> NoTurn, notes |-> EmptyNotes]

NoResponse ==
  [reply |-> "", next_question |-> "", capture_intent |-> "", turn |-> 0,
   notes |-> EmptyNotes, branch |-> ""]

\* notes a client may send on its first turn: any stage value, either lock
\* flag, any count of earlier inputs, a transcript that is missing or holds
\* entries of an earlier conversation
StageInputs == {"", "start", "goal", "business", "metric", "capture", "bogus"}

InputCounts == {0, 4, 5, 9}

OldTranscript ==
  << [turn |-> 0, user |-> <<"h", "i">>, at |-> 0],
     [turn |-> 1, zion |-> promptGoal.reply, at |-> 0] >>

FirstNotes ==
  { [EmptyNotes EXCEPT !.stage = st, !.capture_locked = lk, !.user_inputs = ui,
                       !.transcript = tr] :
      st \in StageInputs, lk \in BOOLEAN, ui \in InputCounts,
      tr \in { [array |-> FALSE, items |-> <<>>],
               [array |-> TRUE, items |-> OldTranscript] } }

InitCommon ==
  /\ cnotes = init
  /\ cturn = [s \in Sessions |-> NoTurn]
  /\ lastReq = [s \in Sessions |-> NoBody]
  /\ lastResp = [s \in Sessions |-> NoResponse]
  /\ prevResp = [s \in Sessions |-> NoResponse]
  /\ nturns = [s \in Sessions |-> 0]
  /\ noneCount = [s \in Sessions |-> 0]
  /\ clock = 0
  /\ alone = [s \in Sessions |-> NoResponse]

\* the intake requests and the state of the services around the handlers
\* {"email":"a@b.com","name":"Jane Doe","business":"Acme"}
ScenarioBody ==
  Text(<<>>, JObj([email |-> JStr(<<"a", "@", "b", ".", "c", "o", "m">>), name |-> JStr(<<"J", "a", "n", "e", " ", "D", "o", "e">>),
                   business |-> JStr(<<"A", "c", "m", "e">>)]), <<>>)

\* {"email":" a@b.com ","full_name":" Jane  van Doe ","phone":"555"}
FullNameBody ==
  Text(<<>>, JObj([email |-> JStr(<<" ", "a", "@", "b", ".", "c", "o", "m", " ">>), full_name |-> JStr(<<" ", "J", "a", "n", "e", " ", " ", "v", "a", "n", " ", "D", "o", "e", " ">>),
                   phone |-> JStr(<<"5", "5", "5">>)]), <<" ">>)

\* {"email":"  ","name":"Jane Doe","business":"Acme"}
BlankEmailBody ==
  Text(<<>>, JObj([email |-> JStr(<<" ", " ">>), name |-> JStr(<<"J", "a", "n", "e", " ", "D", "o", "e">>),
                   business |-> JStr(<<"A", "c", "m", "e">>)]), <<>>)

\* {"name":"Jane Doe","business":"Acme"}
NoEmailBody ==
  Text(<<>>, JObj([name |-> JStr(<<"J", "a", "n", "e", " ", "D", "o", "e">>), business |-> JStr(<<"A", "c", "m", "e">>)]), <<>>)

\* a body that is not JSON
BrokenBody == Text(<<>>, Broken, <<>>)

IntakeRequests ==
  { [method |-> "POST", body |-> b] :
      b \in {ScenarioBody, FullNameBody, BlankEmailBody, NoEmailBody, BrokenBody, EmptyText} }
    \cup { [method |-> "GET", body |-> EmptyText], [method |-> "OPTIONS", body |-> EmptyText] }

\* what the generation API answers to the proposal prompts of an intake
IntakeAnswers ==
  { Answer(Text(<<>>, GoodProposal, <<" ">>)),
    Answer(Text(<<>>, Proposal(JStr(<<"P", "l", "a", "n">>), JArr(<<Ignite, Elevate>>)), <<>>)),
    ApiFailure }

\* what Math.random().toString(16) may write after "0."
IntakeFractions == { <<"a", "1", "b", "2", "c", "3", "d", "4", "e", "5", "f", "6", "0">>, <<"0", "f", "9", "e", "8", "d", "7", "c", "6", "b", "5", "a", "4">> }

\* a key of the store that no intake of this run writes, and what an
\* earlier writer may have left under it: text that is not JSON, or a
\* document that is not a record
OtherId == <<"7", "7", "A", "A", "0", "0", "F", "F">>

Leftovers ==
  { Entry(Text(<<"o", "o", "p", "s">>, NoDoc, <<>>), TRUE, 1800),
    Entry(Text(<<>>, JObj([foo |-> JNum(1)]), <<>>), TRUE, 1800) }

Ids ==
  {makePid(f) : f \in IntakeFractions}
    \cup {makeId(d) : d \in UNION {Draws(c) : c \in Clients}}
    \cup {OtherId}

Keys == {Key(ns, id) : ns \in {"proposal", "proposal_fail"}, id \in Ids}

\* an entry whose time-to-live has run out
Expired == [NoEntry EXCEPT !.expires = TRUE]

\* the query parameter of a fetch: an id, an id with white space around it,
\* an id that was never issued, nothing
FetchPids == Ids \cup {<<" ">> \o makePid(f) \o <<" ">> : f \in IntakeFractions}
               \cup {<<"D", "E", "A", "D", "B", "E", "E", "F">>, <<>>}

FetchRequests ==
  { [method |-> "GET", pid |-> p] : p \in FetchPids }
    \cup { [method |-> "POST", pid |-> <<>>], [method |-> "OPTIONS", pid |-> <<>>] }

NoIntake ==
  [handler |-> "", req |-> [method |-> "", body |-> EmptyText], id |-> NoId,
   run |-> Run(bad(0, <<>>), <<>>, Idle, <<>>, <<>>, <<>>)]

\* a client that submits nothing in this run
Absent == [NoIntake EXCEPT !.handler = "absent"]

NoFetch ==
  [req |-> [method |-> "", pid |-> <<>>], kvUp |-> FALSE, entry |-> NoEntry, by |-> "",
   resp |-> FetchResponse(0, FALSE, Undefined, <<>>)]

\* no intake is submitted and nothing is fetched
NoService ==
  /\ env = [ghl |-> FALSE, kv |-> FALSE, ttl |-> <<>>]
  /\ kv = [k \in Keys |-> NoEntry]
  /\ writer = [k \in Keys |-> ""]
  /\ intake = [c \in Clients |-> NoIntake]
  /\ fetched = NoFetch

\* no proposal is asked for
\* no pure function is called
NoProbe == [fn |-> "", input |-> Undefined, done |-> FALSE, out |-> Undefined]

NoProposal ==
  /\ NoService
  /\ probe = NoProbe
  /\ chat = NoChat
  /\ apiKey = TRUE
  /\ ans1 = ApiFailure
  /\ ans2 = ApiFailure
  /\ proposal = Idle

\* one session, started from any notes a client can send
Init ==
  /\ NoProposal
  /\ active = {"s1"}
  /\ \E n \in FirstNotes \cup {EmptyNotes} :
       init = [s \in Sessions |-> IF s = "s1" THEN n ELSE EmptyNotes]
  /\ InitCommon

\* two fresh sessions whose turns interleave
InitSessions ==
  /\ NoProposal
  /\ active = Sessions
  /\ init = [s \in Sessions |-> EmptyNotes]
  /\ InitCommon

TurnLimit == IF active = Sessions THEN MaxSharedTurns ELSE MaxTurns

MessagesNow == IF active = Sessions THEN SharedMessages ELSE Messages

\* POST /api/zion for session s with message m
Turn(s, m) ==
  /\ s \in active
  /\ nturns[s] < TurnLimit
  /\ LET body == [message |-> m, session_id |-> s, turn |-> cturn[s],
                  notes |-> cnotes[s]]
         r == zionHandler(body, clock + 1)
         soloBody == [body EXCEPT !.turn = IF nturns[s] = 0 THEN NoTurn
                                            ELSE alone[s].turn,
                                  !.notes = IF nturns[s] = 0 THEN init[s]
                                             ELSE alone[s].notes]
     IN  /\ clock' = clock + 1
         /\ lastReq' = [lastReq EXCEPT ![s] = body]
         /\ prevResp' = [prevResp EXCEPT ![s] = lastResp[s]]
         /\ lastResp' = [lastResp EXCEPT ![s] = r]
         /\ cnotes' = [cnotes EXCEPT ![s] = r.notes]
         /\ cturn' = [cturn EXCEPT ![s] = r.turn]
         /\ nturns' = [nturns EXCEPT ![s] = @ + 1]
         /\ noneCount' = [noneCount EXCEPT
                            ![s] = IF r.capture_intent = "none" THEN @ + 1 ELSE @]
         /\ alone' = [alone EXCEPT ![s] = zionHandler(soloBody, nturns[s] + 1)]
         /\ UNCHANGED <<active, init>>
         /\ UNCHANGED proposalVars
         /\ UNCHANGED chat
         /\ UNCHANGED intakeVars
         /\ UNCHANGED probe

Next == \E s \in Sessions, m \in MessagesNow : Turn(s, m)

Spec == Init /\ [][Next]_vars

SpecSessions == InitSessions /\ [][Next]_vars

\* one call of generateProposalStrict, for any configuration and any two
\* answers of the generation API
InitProposal ==
  /\ active = {}
  /\ init = [s \in Sessions |-> EmptyNotes]
  /\ InitCommon
  /\ apiKey \in BOOLEAN
  /\ ans1 \in ProposalAnswers
  /\ ans2 \in ProposalAnswers
  /\ proposal = Idle
  /\ chat = NoChat
  /\ NoService
  /\ probe = NoProbe

GenerateProposal ==
  /\ proposal.outcome = "idle"
  /\ proposal' = generateProposalStrict(apiKey, ans1, ans2)
  /\ UNCHANGED <<apiKey, ans1, ans2>>
  /\ UNCHANGED dialogueVars
  /\ UNCHANGED chat
  /\ UNCHANGED intakeVars
  /\ UNCHANGED probe

NextProposal == GenerateProposal

SpecProposal == InitProposal /\ [][NextProposal]_vars

\* requests to the part_001 handler, each run with two answers of the
\* generation API
InitChat ==
  /\ active = {}
  /\ init = [s \in Sessions |-> EmptyNotes]
  /\ InitCommon
  /\ NoProposal

Chat(method, message, hasKey, a, b) ==
  /\ chat = NoChat
  /\ chat' = [req |-> [method |-> method, message |-> message],
              hasKey |-> hasKey, ansA |-> a, ansB |-> b,
              respA |-> chatHandler([method |-> method, message |-> message], hasKey, a),
              respB |-> chatHandler([method |-> method, message |-> message], hasKey, b)]
  /\ UNCHANGED dialogueVars
  /\ UNCHANGED proposalVars
  /\ UNCHANGED intakeVars
  /\ UNCHANGED probe

NextChat ==
  \E method \in ChatMethods, message \in ChatMessages, hasKey \in BOOLEAN,
     a \in ChatAnswers, b \in ChatAnswers :
    Chat(method, message, hasKey, a, b)

SpecChat == InitChat /\ [][NextChat]_vars

\* what PROPOSAL_TTL_SECONDS may hold: nothing, zero, text that is not a
\* number, a number of seconds
TtlSettings == { <<>>, <<"0">>, <<"s", "o", "o", "n">>, <<"6", "0">> }

\* the services: any configuration of the webhook and the store, the
\* time-to-live setting drawn from ttls
Services(ttls) ==
  /\ active = {}
  /\ init = [s \in Sessions |-> EmptyNotes]
  /\ InitCommon
  /\ chat = NoChat
  /\ apiKey = TRUE
  /\ ans1 = ApiFailure
  /\ ans2 = ApiFailure
  /\ proposal = Idle
  /\ env \in {[ghl |-> g, kv |-> k, ttl |-> s] : g \in BOOLEAN, k \in BOOLEAN, s \in ttls}
  /\ writer = [k \in Keys |-> ""]
  /\ fetched = NoFetch
  /\ probe = NoProbe

\* PROPOSAL_TTL_SECONDS is not set
InitServices == Services({<<>>})

\* two clients submit one intake each
InitIntake ==
  /\ InitServices
  /\ kv = [k \in Keys |-> NoEntry]
  /\ intake = [c \in Clients |-> NoIntake]

\* one client submits an intake; proposals are fetched afterwards, and
\* stored entries expire.  The store is empty but for what an earlier
\* writer left under one key.
InitFetch ==
  /\ InitServices
  /\ \E left \in Leftovers :
       kv = [k \in Keys |-> IF k = Key("proposal", OtherId) THEN left ELSE NoEntry]
  /\ intake = [c \in Clients |-> IF c = "c1" THEN NoIntake ELSE Absent]

\* the store after the writes of one handler run by client c
Written(store, writes) ==
  [k \in Keys |-> IF \E i \in 1..Len(writes) : writes[i].key = k
                  THEN writes[CHOOSE i \in 1..Len(writes) : writes[i].key = k].entry
                  ELSE store[k]]

WrittenBy(c, writes) ==
  [k \in Keys |-> IF \E i \in 1..Len(writes) : writes[i].key = k THEN c ELSE writer[k]]

\* client c submits an intake to the handler of src/api/intake.js
Intake(c, req, hookOk, kvUp, a1, a2, fraction) ==
  /\ intake[c] = NoIntake
  /\ LET run == intakeHandler(req, env, apiKey, hookOk, kvUp, a1, a2, fraction)
     IN  /\ intake' = [intake EXCEPT ![c] = [handler |-> "intake", req |-> req,
                                             id |-> makePid(fraction), run |-> run]]
         /\ kv' = Written(kv, run.writes)
         /\ writer' = WrittenBy(c, run.writes)
  /\ UNCHANGED <<env, fetched>>
  /\ UNCHANGED dialogueVars
  /\ UNCHANGED proposalVars
  /\ UNCHANGED chat
  /\ UNCHANGED probe

\* client c submits an intake to the V2 handler of src/unnamed/part_000
IntakeV2(c, req, hookOk, kvUp, draw) ==
  /\ intake[c] = NoIntake
  /\ LET run == intakeHandlerV2(req, env, hookOk, kvUp, draw)
     IN  /\ intake' = [intake EXCEPT ![c] = [handler |-> "v2", req |-> req,
                                             id |-> makeId(draw), run |-> run]]
         /\ kv' = Written(kv, run.writes)
         /\ writer' = WrittenBy(c, run.writes)
  /\ UNCHANGED <<env, fetched>>
  /\ UNCHANGED dialogueVars
  /\ UNCHANGED proposalVars
  /\ UNCHANGED chat
  /\ UNCHANGED probe

\* GET /api/proposal?pid=...
Fetch(req, kvUp) ==
  /\ \A c \in Clients : intake[c] # NoIntake
  /\ fetched' = [req |-> req,
                 kvUp |-> kvUp,
                 entry |-> IF Key("proposal", trim(req.pid)) \in Keys
                           THEN kv[Key("proposal", trim(req.pid))] ELSE NoEntry,
                 by |-> IF Key("proposal", trim(req.pid)) \in Keys
                        THEN writer[Key("proposal", trim(req.pid))] ELSE "",
                 resp |-> proposalHandler(req, kv, env.kv, kvUp)]
  /\ UNCHANGED <<env, kv, writer, intake>>
  /\ UNCHANGED dialogueVars
  /\ UNCHANGED proposalVars
  /\ UNCHANGED chat
  /\ UNCHANGED probe

\* the time-to-live of the entry under key k runs out
Expire(k) ==
  /\ kv[k].present
  /\ kv[k].expires
  /\ kv' = [kv EXCEPT ![k] = Expired]
  /\ UNCHANGED <<env, writer, intake, fetched>>
  /\ UNCHANGED dialogueVars
  /\ UNCHANGED proposalVars
  /\ UNCHANGED chat
  /\ UNCHANGED probe

Submit ==
  \/ \E c \in Clients, req \in IntakeRequests, hookOk \in BOOLEAN, kvUp \in BOOLEAN,
        a1 \in IntakeAnswers, a2 \in IntakeAnswers, fraction \in IntakeFractions :
       Intake(c, req, hookOk, kvUp, a1, a2, fraction)
  \/ \E c \in Clients, req \in IntakeRequests, hookOk \in BOOLEAN, kvUp \in BOOLEAN :
       \E draw \in Draws(c) : IntakeV2(c, req, hookOk, kvUp, draw)

NextIntake == Submit

SpecIntake == InitIntake /\ [][NextIntake]_vars

NextFetch ==
  \/ Submit
  \/ \E req \in FetchRequests, kvUp \in BOOLEAN : Fetch(req, kvUp)
  \/ \E id \in Ids : Expire(Key("proposal", id))

SpecFetch == InitFetch /\ [][NextFetch]_vars

\* one client submits an intake under any setting of PROPOSAL_TTL_SECONDS
InitExpiry ==
  /\ Services(TtlSettings)
  /\ kv = [k \in Keys |-> NoEntry]
  /\ intake = [c \in Clients |-> IF c = "c1" THEN NoIntake ELSE Absent]

SpecExpiry == InitExpiry /\ [][NextIntake]_vars

\* nothing else runs while a pure function is called
Quiet ==
  /\ active = {}
  /\ init = [s \in Sessions |-> EmptyNotes]
  /\ InitCommon
  /\ chat = NoChat
  /\ apiKey = TRUE
  /\ ans1 = ApiFailure
  /\ ans2 = ApiFailure
  /\ proposal = Idle
  /\ NoService

\* the call of fn on input, before it returns
Call(fn, input) == [fn |-> fn, input |-> input, done |-> FALSE, out |-> Undefined]

\* parsed values handed to validateProposalShape.  A member that is
\* Undefined is a missing member.  The monthly price of a tier is given
\* under price_monthly, under monthly_price, under both or under neither.
ShapeSummaries == { Undefined, JStr(<<>>), JStr(<<"P", "l", "a", "n">>), JNum(1) }

ShapeNames == { Undefined, JStr(<<>>), JStr(<<"I", "g", "n", "i", "t", "e">>), JNum(7) }

ShapePrices ==
  { [price_monthly |-> a, monthly_price |-> b] :
      a \in {Undefined, JNum(950), JStr(<<"9", "5", "0">>), JNull}, b \in {Undefined, JNum(950)} }

ShapeScopes == { Undefined, JArr(<<>>), JArr(<<JStr(<<"C", "R", "M">>)>>), JStr(<<"C", "R", "M">>) }

ShapeTiers ==
  { JObj([name |-> n, price_monthly |-> p.price_monthly,
          monthly_price |-> p.monthly_price, scope |-> s]) :
      n \in ShapeNames, p \in ShapePrices, s \in ShapeScopes }
    \cup { JNull, JNum(0), JStr(<<"I", "g", "n", "i", "t", "e">>), JArr(<<>>) }

ShapeTierLists ==
  { JArr(<<t, Elevate, Luminary>>) : t \in ShapeTiers }
    \cup { JArr(<<Ignite, Elevate, t>>) : t \in ShapeTiers }
    \cup { JArr(<<>>), JArr(<<Ignite, Elevate>>),
           JArr(<<Ignite, Elevate, Luminary, Ignite>>),
           JObj([a |-> Ignite, b |-> Elevate, c |-> Luminary]), JNull, Undefined }

ShapeInputs ==
  { JObj([executive_summary |-> s, tiers |-> l]) : s \in ShapeSummaries, l \in ShapeTierLists }
    \cup { JNull, Undefined, JNum(3), JStr(<<"P", "l", "a", "n">>), JBool(TRUE),
           JArr(<<Ignite, Elevate, Luminary>>) }

InitShape ==
  /\ Quiet
  /\ \E v \in ShapeInputs : probe = Call("validateProposalShape", v)

\* validateProposalShape(obj) returns
Validate ==
  /\ probe.fn = "validateProposalShape"
  /\ ~probe.done
  /\ probe' = [probe EXCEPT !.done = TRUE,
                            !.out = JBool(validateProposalShape(probe.input))]
  /\ UNCHANGED dialogueVars
  /\ UNCHANGED proposalVars
  /\ UNCHANGED chat
  /\ UNCHANGED intakeVars

NextShape == Validate

SpecShape == InitShape /\ [][NextShape]_vars

\* values handed to coerceToContract: objects whose members are missing,
\* strings (empty, blank, padded), or values of other types; the same
\* objects as JSON text; text that is not JSON; values that are no objects
CoerceMembers == { Undefined, JStr(<<>>), JStr(<<" ", " ">>), JStr(<<" ", "H", "i", " ">>), JNum(1), JNull }

CoerceIntents ==
  { Undefined, IntentNone, IntentAskContact, JStr(<<"l", "a", "t", "e", "r">>), JStr(<<>>), JStr(<<" ", "n", "o", "n", "e", " ">>),
    JBool(TRUE) }

CoerceObjects ==
  { JObj([reply |-> r, next_question |-> q, capture_intent |-> i, turn |-> JNum(2)]) :
      r \in CoerceMembers, q \in CoerceMembers, i \in CoerceIntents }

CoerceInputs ==
  CoerceObjects
    \cup { JString(Text(<<>>, o, <<" ">>)) :
             o \in { JObj([reply |-> r, next_question |-> JStr(<<"G", "o", "a", "l", "?">>), capture_intent |-> i]) :
                       r \in CoerceMembers, i \in CoerceIntents } }
    \cup { JNull, Undefined, JNum(0), JNum(5), JBool(TRUE), JBool(FALSE), JStr(<<>>),
           JStr(<<"S", "u", "r", "e", ".">>), JString(Text(<<>>, Broken, <<>>)),
           JString(Text(<<>>, JStr(<<"H", "i">>), <<>>)), JString(Text(<<>>, JNull, <<>>)),
           JArr(<<>>), JArr(<<Contract(JStr(<<"H", "i">>), JStr(<<"E", "m", "a", "i", "l", "?">>), IntentAskContact)>>),
           JObj(<<>>) }

InitCoerce ==
  /\ Quiet
  /\ \E v \in CoerceInputs : probe = Call("coerceToContract", v)

\* coerceToContract(raw) returns
Coerce ==
  /\ probe.fn = "coerceToContract"
  /\ ~probe.done
  /\ probe' = [probe EXCEPT !.done = TRUE, !.out = coerceToContract(probe.input)]
  /\ UNCHANGED dialogueVars
  /\ UNCHANGED proposalVars
  /\ UNCHANGED chat
  /\ UNCHANGED intakeVars

NextCoerce == Coerce

SpecCoerce == InitCoerce /\ [][NextCoerce]_vars

(***************************************************************************)
(* Vocabulary of the dialogue claims.                                       *)
(***************************************************************************)
\* position of a stage in the order start, goal, business, metric, capture;
\* a missing stage is read as start by the handler (line 202)
StageRank(st) ==
  CASE st = "" -> 0
    [] st = "start" -> 0
    [] st = "goal" -> 1
    [] st = "business" -> 2
    [] st = "metric" -> 3
    [] st = "capture" -> 4
    [] OTHER -> -1

Fresh(s) == init[s] = EmptyNotes

\* the message of the i-th turn of s, as the transcript of a fresh session
\* records it
MessageOf(s, i) == cnotes[s].transcript.items[2 * i - 1].user

FirstThreeAreAnswers(s) ==
  /\ nturns[s] >= 3
  /\ \A i \in 1..3 : ~isNonAnswer(MessageOf(s, i))

LowSignal(m) == isNonAnswer(normalize(m))

\* the notes of a request say capture was reached
ReachedCapture(n) == n.capture_locked \/ n.stage = "capture"

\* C1 as stated: in a fresh session whose first three messages are answers,
\* the response to the 3rd turn and every later response has
\* capture_intent = ask_contact.
C1_AskContactOnThirdTurn ==
  \A s \in active :
    (Fresh(s) /\ FirstThreeAreAnswers(s))
      => lastResp[s].capture_intent = "ask_contact"

\* C1 amended: in a fresh session whose first three messages are answers, the
\* response to the 3rd turn still has capture_intent = none (it asks the third
\* question); the response to the 4th turn has ask_contact, and so has every
\* later response, whatever the message.
C1_AskContactOnFourthTurn ==
  \A s \in active :
    (Fresh(s) /\ FirstThreeAreAnswers(s))
      => /\ nturns[s] = 3 => lastResp[s].capture_intent = "none"
         /\ nturns[s] >= 4 => lastResp[s].capture_intent = "ask_contact"

C1_Witness ==
  \E s \in active :
    /\ Fresh(s) /\ FirstThreeAreAnswers(s)
    /\ nturns[s] = 5
    /\ LowSignal(lastReq[s].message)
    /\ prevResp[s].capture_intent = "ask_contact"
    /\ lastResp[s].capture_intent = "ask_contact"

\* C2 as stated: a low-signal turn taken while capture is not locked leaves
\* notes.stage as it was and returns the next_question of the previous
\* response.
C2_LowSignalHoldsStage ==
  \A s \in active :
    (/\ Fresh(s) /\ nturns[s] >= 2
     /\ LowSignal(lastReq[s].message)
     /\ ~ReachedCapture(lastReq[s].notes))
      => /\ lastResp[s].notes.stage = lastReq[s].notes.stage
         /\ lastResp[s].next_question = prevResp[s].next_question

\* the question the handler asks on entering a stage
QuestionOf(st) ==
  CASE st = "goal" -> promptGoal.next_question
    [] st = "business" -> promptBusiness.next_question
    [] st = "metric" -> promptMetric.next_question
    [] st = "capture" -> triggerIntake.next_question
    [] OTHER -> ""

\* C2 amended: a low-signal turn taken while capture is not locked advances
\* notes.stage exactly as an answer does (to a later stage of the order
\* start, goal, business, metric, capture) and returns the question of the
\* stage it enters, not the previous one; the message is only kept out of
\* the goal slots (primary_goal, primary_goal_raw stay as they were).
C2_LowSignalAdvances ==
  \A s \in active :
    (/\ nturns[s] >= 1
     /\ LowSignal(lastReq[s].message)
     /\ ~ReachedCapture(lastReq[s].notes)
     /\ StageRank(lastReq[s].notes.stage) >= 0)
      => /\ StageRank(lastResp[s].notes.stage) > StageRank(lastReq[s].notes.stage)
         /\ lastResp[s].next_question = QuestionOf(lastResp[s].notes.stage)
         /\ nturns[s] >= 2 => lastResp[s].next_question # prevResp[s].next_question
         /\ lastResp[s].notes.primary_goal_raw = lastReq[s].notes.primary_goal_raw
         /\ lastResp[s].notes.primary_goal = lastReq[s].notes.primary_goal

C2_Witness ==
  \E s \in active :
    /\ Fresh(s) /\ nturns[s] = 2
    /\ lastReq[s].message # <<>>
    /\ LowSignal(lastReq[s].message)
    /\ lastReq[s].notes.stage = "goal"
    /\ lastResp[s].notes.stage = "business"
    /\ lastResp[s].next_question = promptBusiness.next_question

\* C3: over a sequence of turns that resend the returned notes,
\* notes.capture_locked never goes from true to false and notes.stage never
\* moves backward in the order start, goal, business, metric, capture.  Every
\* turn is a (request notes, response notes) pair of some state, and the
\* response notes are the request notes of the next turn.
C3_LockAndStageMonotone ==
  \A s \in active :
    nturns[s] >= 1
      => /\ lastReq[s].notes.capture_locked => lastResp[s].notes.capture_locked
         /\ StageRank(lastResp[s].notes.stage) >= StageRank(lastReq[s].notes.stage)
         /\ StageRank(lastResp[s].notes.stage) >= 1
         /\ cnotes[s] = lastResp[s].notes

C3_Witness ==
  \E s \in active :
    /\ Fresh(s) /\ nturns[s] = 5
    /\ lastReq[s].notes.capture_locked /\ lastReq[s].notes.stage = "capture"
    /\ lastResp[s].notes.capture_locked /\ lastResp[s].notes.stage = "capture"

\* C4 as stated: once capture is reached, the response on which it is reached
\* and every later one carry the same reply and the same next_question.
C4_SamePromptFromCapture ==
  \A s \in active :
    (nturns[s] >= 2 /\ prevResp[s].capture_intent = "ask_contact")
      => /\ lastResp[s].reply = prevResp[s].reply
         /\ lastResp[s].next_question = prevResp[s].next_question

\* C4 amended: every response after the one on which capture is reached
\* carries the same reply and next_question (the locked prompt), whatever the
\* message; the response on which capture is reached carries the
\* triggerIntake prompt, whose reply and next_question are other texts.
C4_SamePromptAfterCapture ==
  \A s \in active :
    nturns[s] >= 1
      => /\ ReachedCapture(lastReq[s].notes)
              => /\ lastResp[s].reply = lockedOut.reply
                 /\ lastResp[s].next_question = lockedOut.next_question
         /\ (~ReachedCapture(lastReq[s].notes) /\ ReachedCapture(lastResp[s].notes))
              => /\ lastResp[s].reply = triggerIntake.reply
                 /\ lastResp[s].next_question = triggerIntake.next_question
                 /\ lastResp[s].reply # lockedOut.reply
                 /\ lastResp[s].next_question # lockedOut.next_question

C4_Witness ==
  \E s \in active :
    /\ Fresh(s) /\ nturns[s] = 5
    /\ prevResp[s].reply = triggerIntake.reply
    /\ lastResp[s].reply = lockedOut.reply
    /\ ~LowSignal(lastReq[s].message)

\* C5: in a dialogue that starts from empty notes and resends the returned
\* notes, at most 3 responses carry capture_intent = none, and the 4th and
\* every later response carries ask_contact, whatever the messages are.
C5_AtMostThreeQuestions ==
  \A s \in active :
    Fresh(s)
      => /\ noneCount[s] <= 3
         /\ nturns[s] >= 4 => lastResp[s].capture_intent = "ask_contact"

C5_Witness ==
  \E s \in active :
    /\ Fresh(s) /\ nturns[s] = 4 /\ noneCount[s] = 3
    /\ \A i \in 1..4 : isNonAnswer(MessageOf(s, i))
    /\ lastResp[s].capture_intent = "ask_contact"

\* C6: a turn that arrives with capture not locked and whose count of user
\* inputs, this message included, has reached MAX_USER_INPUTS_BEFORE_INTAKE
\* is answered with the capture transition, whatever the stage and the slots.
C6_CapForcesCapture ==
  \A s \in active :
    (/\ nturns[s] >= 1
     /\ ~lastReq[s].notes.capture_locked
     /\ lastReq[s].notes.user_inputs + 1 >= 6)
      => /\ lastResp[s].capture_intent = "ask_contact"
         /\ lastResp[s].notes.stage = "capture"
         /\ lastResp[s].notes.capture_locked

C6_Witness ==
  \E s \in active :
    /\ nturns[s] >= 1
    /\ ~lastReq[s].notes.capture_locked
    /\ lastReq[s].notes.stage = "goal"
    /\ lastReq[s].notes.user_inputs = 5
    /\ lastReq[s].notes.business_type = <<>>
    /\ lastResp[s].branch = "cap"
    /\ lastResp[s].reply = triggerIntake.reply

\* the entries of a transcript field; a field that is no array holds none
EntriesOf(tr) == IF tr.array THEN tr.items ELSE <<>>

\* the notes and the response without the fields that carry the clock
StripEntry(e) == [e EXCEPT !.at = 0]

StripNotes(n) ==
  [n EXCEPT !.last_updated_at = 0,
            !.transcript.items = [i \in 1..Len(@) |-> StripEntry(@[i])]]

StripResponse(r) == [r EXCEPT !.notes = StripNotes(@)]

\* the same, also without the session id the handler copies from the body
Anonymous(r) == [StripResponse(r) EXCEPT !.notes.session_id = ""]

C9_TranscriptAppendOnly ==
  \A s \in active :
    nturns[s] >= 1 =>
      LET old == EntriesOf(lastReq[s].notes.transcript)
          new == lastResp[s].notes.transcript.items
          k == Len(old)
      IN  /\ lastResp[s].notes.transcript.array
          /\ Len(new) = k + 2
          /\ SubSeq(new, 1, k) = old
          /\ DOMAIN new[k + 1] = {"turn", "user", "at"}
          /\ new[k + 1].user = sliceTo(trim(lastReq[s].message), 500)
          /\ DOMAIN new[k + 2] = {"turn", "zion", "at"}
          /\ new[k + 2].zion = lastResp[s].reply

C9_Witness ==
  \E s \in active :
    /\ nturns[s] = 3
    /\ init[s].transcript.array
    /\ Len(cnotes[s].transcript.items) = 8
    /\ SubSeq(cnotes[s].transcript.items, 1, 2) = OldTranscript
    /\ "user" \in DOMAIN cnotes[s].transcript.items[7]
    /\ cnotes[s].transcript.items[7].user = lastReq[s].message
    /\ lastReq[s].message # <<>>

\* the number of entries of obj.tiers; NoNumber when tiers is no array
TierCount(obj) ==
  IF IsArray(Get(obj, "tiers")) THEN Len(Get(obj, "tiers").items) ELSE NoNumber

\* the documents an answer can be read as: the text parsed as it is, or the
\* text between its first and its last brace
ReadingsOf(a) ==
  IF ~a.ok THEN {}
  ELSE { r.v : r \in { q \in {JSONparse(textTrim(a.text)),
                               JSONparse(braceSlice(textTrim(a.text)))} : q.ok } }

\* C10: generateProposalStrict never returns a document whose tiers list has
\* not exactly 3 entries, whatever the generation API answers to the first
\* call and to the repair call; when neither answer can be read as a document
\* with 3 tiers, the call throws and returns no document.
C10_ThreeTiersOrThrow ==
  /\ proposal.outcome = "returned"
       => /\ TierCount(proposal.obj) = 3
          /\ proposal.obj \in ReadingsOf(ans1) \cup ReadingsOf(ans2)
  /\ (/\ proposal.outcome # "idle"
      /\ \A d \in ReadingsOf(ans1) \cup ReadingsOf(ans2) : TierCount(d) # 3)
       => /\ proposal.outcome = "threw"
          /\ proposal.obj = Undefined

\* the first answer has 4 tiers and is refused, the repair answer is returned
C10_Witness ==
  /\ proposal.outcome = "returned"
  /\ proposal.calls = 2
  /\ \E d \in ReadingsOf(ans1) : TierCount(d) = 4
  /\ TierCount(proposal.obj) = 3

\* both answers are refused for their tier count and the call throws
C10_WitnessThrow ==
  /\ proposal.outcome = "threw"
  /\ proposal.hasRaws
  /\ \E d \in ReadingsOf(ans1) : TierCount(d) = 2
  /\ \E d \in ReadingsOf(ans2) : TierCount(d) = 4

\* C7: next_question and capture_intent of a dialogue response are decided
\* by the request alone: two runs of the same request that differ only in
\* what the generation API answers return the same next_question and the
\* same capture_intent.
C7_IndependentOfGeneration ==
  (chat.respA.status = 200 /\ chat.respB.status = 200 /\ chat.req.method = "POST")
    => /\ chat.respA.next_question = chat.respB.next_question
       /\ chat.respA.capture_intent = chat.respB.capture_intent

\* the first output of the generation API parses and validates (lines 193-195)
FirstOutputValid ==
  LET obj1 == parseOrExtract(textTrim(ans1.text))
  IN  Truthy(obj1) /\ validateProposalShape(obj1)

\* C11: one call of generateProposalStrict calls the generation API once when
\* the first output parses and validates and twice when it does not, the
\* second call being the repair call whose prompt embeds the first output;
\* it never makes a third call.  (No call is made when the API key is
\* missing, and a first call that fails is not repeated.)
C11_OneRepairCall ==
  proposal.outcome # "idle"
    => /\ proposal.calls <= 2
       /\ (apiKey /\ ans1.ok /\ FirstOutputValid) => proposal.calls = 1
       /\ (apiKey /\ ans1.ok /\ ~FirstOutputValid)
            => /\ proposal.calls = 2
               /\ proposal.embedded = textTrim(ans1.text)
       /\ ~apiKey => proposal.calls = 0
       /\ (apiKey /\ ~ans1.ok) => proposal.calls = 1

\* the first output is refused, the repair call is made with it, and the
\* repair output is refused too: the call ends after two calls
C11_Witness ==
  /\ proposal.outcome = "threw"
  /\ proposal.hasRaws
  /\ proposal.calls = 2
  /\ proposal.embedded = textTrim(ans1.text)
  /\ proposal.embedded # EmptyText

(***************************************************************************)
(* Vocabulary of the intake and fetch claims.                               *)
(***************************************************************************)
\* the output a of the generation API parses and validates
OutputValid(a) ==
  LET obj == parseOrExtract(textTrim(a.text))
  IN  Truthy(obj) /\ validateProposalShape(obj)

\* the run of client c wrote under the key k
Wrote(c, k) ==
  \E i \in 1..Len(intake[c].run.writes) : intake[c].run.writes[i].key = k

\* the run of client c made the external call op
Called(c, op) ==
  \E i \in 1..Len(intake[c].run.steps) : intake[c].run.steps[i].op = op

\* the documents the run of client c wrote to the store
DocsWritten(c) ==
  { intake[c].run.writes[i].entry.val.doc : i \in 1..Len(intake[c].run.writes) }

\* C12: when the first output and the repair output both fail parsing or
\* validation, generateProposalStrict fails with an error that carries both
\* raw outputs (raw1 the first, raw2 the repair output), and the intake
\* handler of src/api/intake.js stores nothing under proposal:<pid> and
\* returns no proposal: its response is an error without an id, and what it
\* writes, if anything, is the failure record, which holds no proposal.
C12_NoSyntheticProposal ==
  \A c \in Clients :
    (/\ intake[c].handler = "intake"
     /\ Len(intake[c].run.outputs) = 2
     /\ \A i \in 1..2 : intake[c].run.outputs[i].ok /\ ~OutputValid(intake[c].run.outputs[i]))
      => /\ intake[c].run.gen.outcome = "threw"
         /\ intake[c].run.gen.hasRaws
         /\ intake[c].run.gen.raw1 = textTrim(intake[c].run.outputs[1].text)
         /\ intake[c].run.gen.raw2 = textTrim(intake[c].run.outputs[2].text)
         /\ ~Wrote(c, Key("proposal", intake[c].id))
         /\ writer[Key("proposal", intake[c].id)] # c
         /\ ~intake[c].run.resp.ok
         /\ intake[c].run.resp.status = 500
         /\ intake[c].run.resp.pid = NoId
         /\ \A d \in DocsWritten(c) : Get(d, "proposal") = Undefined

\* both outputs are refused and the failure record is written
C12_Witness ==
  \E c \in Clients :
    /\ intake[c].handler = "intake"
    /\ intake[c].run.gen.hasRaws
    /\ intake[c].run.gen.raw1 # EmptyText
    /\ intake[c].run.resp.status = 500
    /\ Wrote(c, Key("proposal_fail", intake[c].id))

\* the run of client c made the external call op with the outcome ok
CalledWith(c, op, ok) ==
  \E i \in 1..Len(intake[c].run.steps) : intake[c].run.steps[i] = Step(op, ok)

\* C13: in the intake handler of src/api/intake.js, when the lead was
\* forwarded and a valid proposal was generated but the put of the record
\* fails (store not configured, or request failed), the request still
\* succeeds: the response is 200, ok:true, with the generated id.
C13_PutFailureNotFatal ==
  \A c \in Clients :
    (/\ intake[c].handler = "intake"
     /\ CalledWith(c, "webhook", TRUE)
     /\ intake[c].run.gen.outcome = "returned"
     /\ CalledWith(c, "put", FALSE))
      => /\ intake[c].run.resp.status = 200
         /\ intake[c].run.resp.ok
         /\ intake[c].run.resp.pid = intake[c].id

\* the steps of the run of client c
StepsOf(c) == intake[c].run.steps

\* C14: one request to the intake handler of src/api/intake.js forwards,
\* then generates, then persists: every call of the generation API comes
\* after a webhook POST that succeeded, and the record is put under
\* proposal:<pid> only after a proposal passed validation and after every
\* generation call; when the webhook is not configured or answers
\* non-success, no generation call is made and nothing is written under
\* proposal:<pid>.
C14_ForwardGeneratePersist ==
  \A c \in Clients :
    intake[c].handler = "intake"
      => /\ \A i \in 1..Len(StepsOf(c)) :
              StepsOf(c)[i].op = "generate"
                => \E j \in 1..(i - 1) : StepsOf(c)[j] = Step("webhook", TRUE)
         /\ \A i \in 1..Len(StepsOf(c)) :
              StepsOf(c)[i].op = "put"
                => /\ intake[c].run.gen.outcome = "returned"
                   /\ validateProposalShape(intake[c].run.gen.obj)
                   /\ \E j \in 1..(i - 1) : StepsOf(c)[j].op = "generate"
                   /\ \A j \in (i + 1)..Len(StepsOf(c)) : StepsOf(c)[j].op # "generate"
         /\ Wrote(c, Key("proposal", intake[c].id)) => CalledWith(c, "put", TRUE)
         /\ (~env.ghl \/ CalledWith(c, "webhook", FALSE))
              => /\ ~Called(c, "generate")
                 /\ intake[c].run.gen.outcome = "idle"
                 /\ ~Wrote(c, Key("proposal", intake[c].id))
                 /\ writer[Key("proposal", intake[c].id)] # c

\* a request that forwards, generates twice and stores the record
C14_Witness ==
  \E c \in Clients :
    /\ intake[c].handler = "intake"
    /\ StepsOf(c) = <<Step("webhook", TRUE), Step("generate", TRUE), Step("generate", TRUE),
                      Step("put", TRUE)>>
    /\ Wrote(c, Key("proposal", intake[c].id))

\* a request whose webhook POST is refused: nothing is generated
C14_WitnessRefused ==
  \E c \in Clients :
    /\ intake[c].handler = "intake"
    /\ CalledWith(c, "webhook", FALSE)
    /\ intake[c].run.resp.status = 500

\* the submission req carries a JSON object, or nothing, and its email is
\* missing or is empty after trimming
EmailBlank(req) ==
  LET p == JSONparse(req.body)
      e == IF p.ok THEN Get(p.v, "email") ELSE Undefined
  IN  /\ req.method = "POST"
      /\ req.body = EmptyText \/ (p.ok /\ p.v.t = "obj")
      /\ e = Undefined \/ (e.t = "str" /\ trim(CharsOf(e)) = <<>>)

\* C15: in both intake handlers a submission whose email is missing or is
\* empty after trimming is rejected with a 4xx response and causes no
\* webhook POST, no generation call and no key-value write.
C15_BlankEmailRejected ==
  \A c \in Clients :
    (intake[c].handler \in {"intake", "v2"} /\ EmailBlank(intake[c].req))
      => /\ intake[c].run.resp.status \in 400..499
         /\ ~intake[c].run.resp.ok
         /\ intake[c].run.posted = <<>>
         /\ intake[c].run.steps = <<>>
         /\ intake[c].run.writes = <<>>

\* the value v has the structure of a stored record: an object with an
\* identifier, the intake and a proposal document
RecordShaped(v) ==
  /\ v.t = "obj"
  /\ Get(v, "pid").t = "str" \/ Get(v, "proposal_id").t = "str"
  /\ Get(v, "intake").t = "obj"
  /\ validateProposalShape(Get(v, "proposal"))

\* the stored string parses as a record
HoldsRecord(entry) ==
  /\ entry.present
  /\ JSONparse(entry.val).ok
  /\ RecordShaped(JSONparse(entry.val).v)

\* a GET with an id, answered by a store that is configured and reachable
FetchServed ==
  /\ fetched.req.method = "GET"
  /\ trim(fetched.req.pid) # <<>>
  /\ env.kv
  /\ fetched.kvUp

\* C16: a fetch by id is answered 404 with ok:false, never with a 5xx or a
\* parse error, when the key is absent, when it has expired, and when the
\* stored value does not parse as the expected record structure; a record
\* is returned with ok:true only when the stored value has that structure.
C16_NotFoundOrRecord ==
  FetchServed
    => /\ ~HoldsRecord(fetched.entry)
            => fetched.resp.status = 404 /\ ~fetched.resp.ok
       /\ fetched.resp.ok
            => HoldsRecord(fetched.entry) /\ RecordShaped(fetched.resp.record)

\* the intake of client c stored a record under its id X and answered
\* ok:true with X, and the last fetch asked for X before the record expired
\* and was served
RoundTrip(c) ==
  /\ intake[c].run.resp.ok
  /\ intake[c].id # NoId
  /\ intake[c].id \in {intake[c].run.resp.pid, intake[c].run.resp.proposal_id}
  /\ Wrote(c, Key("proposal", intake[c].id))
  /\ FetchServed
  /\ trim(fetched.req.pid) = intake[c].id
  /\ fetched.entry.present
  /\ fetched.by = c

\* the document the run of client c stored under proposal:<id>
StoredDoc(c) ==
  LET w == intake[c].run.writes
  IN  w[CHOOSE i \in 1..Len(w) : w[i].key = Key("proposal", intake[c].id)].entry.val.doc

Accepted(c) ==
  /\ intake[c].handler \in {"intake", "v2"}
  /\ intake[c].req.method = "POST"
  /\ intake[c].run.resp.ok
  /\ intake[c].id \in {intake[c].run.resp.pid, intake[c].run.resp.proposal_id}

\* C18: every accepted intake submission gets an identifier that was not
\* issued before in the same store namespace: no two intake requests get the
\* same id, and so no intake overwrites the record stored by an earlier one.
C18_IdsUnique ==
  \A c \in Clients : \A d \in Clients \ {c} :
    (Accepted(c) /\ Accepted(d))
      => /\ intake[c].id # intake[d].id
         /\ \A k \in Keys : ~(Wrote(c, k) /\ Wrote(d, k))

\* the member `name` of the submitted body, as characters; <<>> when the
\* body has no such string
NameOf(req) ==
  LET n == Get(readJson(req.body), "name")
  IN  IF n.t = "str" THEN trim(CharsOf(n)) ELSE <<>>

\* the part of the name before its first white space, and the remainder
FirstName(n) == SubSeq(n, 1, WordEnd(n))

LastName(n) == trim(SubSeq(n, WordEnd(n) + 1, Len(n)))

\* C19: for every accepted intake submission that gives the lead's name
\* under `name`, the payload POSTed to the CRM webhook has first_name equal
\* to the part of the name before the first white space and last_name equal
\* to the remainder ("Jane" and "Doe" for "Jane Doe"), and the response is
\* ok:true with a non-empty id.
C19_NameSplit ==
  \A c \in Clients :
    (Accepted(c) /\ NameOf(intake[c].req) # <<>>)
      => /\ Len(intake[c].run.posted) = 1
         /\ Get(intake[c].run.posted[1], "first_name") = JStr(FirstName(NameOf(intake[c].req)))
         /\ Get(intake[c].run.posted[1], "last_name") = JStr(LastName(NameOf(intake[c].req)))
         /\ intake[c].run.resp.ok
         /\ intake[c].id # NoId

\* the records the intake handlers of this run left under proposal:<id> keys
StoredRecords ==
  { JSONparse(kv[k].val).v :
      k \in {q \in Keys : q[1] = "proposal" /\ kv[q].present /\ writer[q] \in Clients} }

\* C20: every record that an intake handler stores under a proposal:<id> key
\* carries a proposal document with exactly 3 tiers; no stored record has a
\* missing, null or differently sized tier list.
C20_StoredThreeTiers ==
  \A r \in StoredRecords :
    /\ Get(r, "proposal").t = "obj"
    /\ IsArray(Get(Get(r, "proposal"), "tiers"))
    /\ Len(Get(Get(r, "proposal"), "tiers").items) = 3

\* the submission req is a POST whose body is text that JSON.parse refuses
InvalidJson(req) ==
  /\ req.method = "POST"
  /\ req.body # EmptyText
  /\ ~JSONparse(req.body).ok

\* C21: in both intake handlers a POST whose body is not valid JSON is
\* answered with a 4xx status and ok:false, and causes no webhook POST and
\* no key-value write.
C21_InvalidJsonRejected ==
  \A c \in Clients :
    (intake[c].handler \in {"intake", "v2"} /\ InvalidJson(intake[c].req))
      => /\ intake[c].run.resp.status \in 400..499
         /\ ~intake[c].run.resp.ok
         /\ intake[c].run.posted = <<>>
         /\ intake[c].run.writes = <<>>

\* the entries that the intake handlers of this run wrote to the store
WrittenEntries ==
  UNION { { intake[c].run.writes[i].entry : i \in 1..Len(intake[c].run.writes) } :
            c \in Clients }

\* C22: every record written to the key-value store by an intake handler is
\* written with an expiry, whatever the configuration: no key is stored
\* without a time-to-live.
C22_EveryWriteExpires ==
  /\ \A e \in WrittenEntries : e.expires /\ e.ttl > 0
  /\ \A k \in Keys : (kv[k].present /\ writer[k] \in Clients) => kv[k].expires

\* the V2 handler answered client c after the CRM webhook accepted the lead
WebhookAcceptedV2(c) ==
  /\ intake[c].handler = "v2"
  /\ CalledWith(c, "webhook", TRUE)

\* C23: in the V2 intake handler, once the CRM webhook has accepted the lead
\* the response is 200 with ok:true and the proposal_id, whether the store
\* is not configured, the put succeeds or the put fails; no key-value
\* failure is reported to the caller.
C23_StoreFailureNotReported ==
  \A c \in Clients :
    WebhookAcceptedV2(c)
      => /\ intake[c].run.resp.status = 200
         /\ intake[c].run.resp.ok
         /\ intake[c].run.resp.error = <<>>
         /\ intake[c].run.resp.proposal_id = intake[c].id
         /\ intake[c].id # NoId
         /\ env.kv = Called(c, "put")
         /\ CalledWith(c, "put", FALSE) => intake[c].run.writes = <<>>

\* the webhook accepted two leads: the put of the first failed and the put
\* of the second succeeded
C23_Witness ==
  /\ WebhookAcceptedV2("c1") /\ CalledWith("c1", "put", FALSE)
  /\ WebhookAcceptedV2("c2") /\ CalledWith("c2", "put", TRUE)
  /\ intake["c1"].run.resp.status = 200
  /\ intake["c2"].run.resp.status = 200

\* the webhook accepted a lead and the store is not configured
C23_WitnessNoStore ==
  /\ \E c \in Clients : WebhookAcceptedV2(c) /\ intake[c].run.resp.status = 200
  /\ ~env.kv

\* the goal slot of the notes n holds something
GoalFilled(n) == n.primary_goal # "" \/ n.primary_goal_raw # <<>>

\* the stage of the first slot of the notes n that is still unfilled
NextUnfilledStage(n) ==
  IF ~GoalFilled(n) THEN "goal"
  ELSE IF n.business_type = <<>> THEN "business"
  ELSE IF n.target_metric = <<>> THEN "metric"
  ELSE "capture"

\* s has taken exactly its first turn, from empty notes, with a message
\* that is not low-signal
FirstTurnAnswered(s) ==
  /\ Fresh(s)
  /\ nturns[s] = 1
  /\ ~LowSignal(lastReq[s].message)

\* C24 as stated: on the first turn of a fresh session with a non-low-signal
\* message the response has capture_intent = none, the message fills the
\* goal slot, and the stage of the returned notes is the stage of the next
\* slot that is still unfilled, not of the slot just filled.
C24_FirstTurnSkipsFilledSlot ==
  \A s \in active :
    FirstTurnAnswered(s)
      => /\ lastResp[s].capture_intent = "none"
         /\ GoalFilled(lastResp[s].notes)
         /\ lastResp[s].notes.stage = NextUnfilledStage(lastResp[s].notes)

\* C24 as the handler behaves: on the first turn of a fresh session with a
\* non-low-signal message the response has capture_intent = none, the
\* message fills the goal slot (primary_goal when a goal word is
\* recognised, primary_goal_raw otherwise), and the returned stage is goal:
\* the goal question is still asked once, while the next unfilled slot is
\* the business slot.
C24_FirstTurnStoresGoalAndAsksIt ==
  \A s \in active :
    FirstTurnAnswered(s)
      => /\ lastResp[s].capture_intent = "none"
         /\ GoalFilled(lastResp[s].notes)
         /\ lastResp[s].notes.primary_goal = inferGoal(normalize(lastReq[s].message))
         /\ lastResp[s].notes.primary_goal = ""
              => lastResp[s].notes.primary_goal_raw
                   = clampStr(normalize(lastReq[s].message), 240)
         /\ lastResp[s].notes.stage = "goal"
         /\ lastResp[s].next_question = promptGoal.next_question
         /\ NextUnfilledStage(lastResp[s].notes) = "business"
         /\ ~lastResp[s].notes.capture_locked

\* a first message without a goal word is kept as the raw goal
C24_Witness ==
  \E s \in active :
    /\ FirstTurnAnswered(s)
    /\ lastReq[s].message = <<"h", "v", "a", "c">>
    /\ lastResp[s].notes.primary_goal_raw = <<"h", "v", "a", "c">>
    /\ lastResp[s].notes.stage = "goal"
    /\ lastResp[s].branch = "start"

\* a first message with a goal word fills primary_goal
C24_WitnessInferred ==
  \E s \in active :
    /\ FirstTurnAnswered(s)
    /\ lastResp[s].notes.primary_goal = "Leads"
    /\ lastResp[s].notes.primary_goal_raw = <<>>
    /\ lastResp[s].notes.stage = "goal"

\* v is a number under typeof
IsNumber(v) == v.t = "num"

\* v is a string that is not empty
NonEmptyString(v) == v.t = "str" /\ v.x # EmptyText

\* the tier t has a non-empty string name, a numeric monthly price under one
\* of the field names in fields, and an array scope
TierAcceptable(t, fields) ==
  /\ t.t = "obj"
  /\ NonEmptyString(Get(t, "name"))
  /\ \E k \in fields : IsNumber(Get(t, k))
  /\ Get(t, "scope").t = "arr"

\* v is an object with a non-empty string executive_summary and a tiers
\* array of exactly 3 acceptable tiers
ShapeAcceptable(v, fields) ==
  /\ v.t = "obj"
  /\ NonEmptyString(Get(v, "executive_summary"))
  /\ Get(v, "tiers").t = "arr"
  /\ Len(Get(v, "tiers").items) = 3
  /\ \A i \in 1..3 : TierAcceptable(Get(v, "tiers").items[i], fields)

\* C25: validateProposalShape accepts a parsed value exactly when it is an
\* object with a non-empty string executive_summary and a tiers array of
\* exactly 3 objects, each having a non-empty string name, a numeric monthly
\* price under either of the two field names, and an array scope; every
\* other value is rejected.
C25_AcceptsExactlyTheShape ==
  (probe.fn = "validateProposalShape" /\ probe.done)
    => (probe.out = JBool(ShapeAcceptable(probe.input, {"price_monthly", "monthly_price"})))

\* the stage names of STAGES
StageNames == {"start", "goal", "business", "metric", "capture"}

\* the response to the last request of s goes to capture
WentToCapture(s) ==
  /\ lastResp[s].capture_intent = "ask_contact"
  /\ lastResp[s].notes.stage = "capture"
  /\ lastResp[s].notes.capture_locked

\* C26 as stated: a turn whose incoming notes carry a stage value outside
\* {start, goal, business, metric, capture} and capture_locked not true goes
\* directly to capture.  The empty string is such a value.
C26_UnknownStageForcesCapture ==
  \A s \in active :
    (/\ nturns[s] >= 1
     /\ lastReq[s].notes.stage \notin StageNames
     /\ ~lastReq[s].notes.capture_locked)
      => WentToCapture(s)

\* C26 as the handler behaves: a turn whose incoming notes carry a truthy
\* stage value outside {start, goal, business, metric, capture} and
\* capture_locked not true goes directly to capture, and nothing of the
\* message is stored in the goal, business or metric slots; a falsy stage
\* value (the empty string, like a missing stage) is read as start and the
\* goal question is asked.
C26_UnknownTruthyStageForcesCapture ==
  \A s \in active :
    (nturns[s] >= 1 /\ ~lastReq[s].notes.capture_locked)
      => /\ (lastReq[s].notes.stage \notin StageNames /\ lastReq[s].notes.stage # "")
              => /\ WentToCapture(s)
                 /\ lastResp[s].reply = triggerIntake.reply
                 /\ lastResp[s].next_question = triggerIntake.next_question
                 /\ GoalFilled(lastResp[s].notes) = GoalFilled(lastReq[s].notes)
                 /\ lastResp[s].notes.business_type = lastReq[s].notes.business_type
                 /\ lastResp[s].notes.target_metric = lastReq[s].notes.target_metric
         /\ (lastReq[s].notes.stage = "" /\ lastReq[s].notes.user_inputs + 1 < 6)
              => /\ lastResp[s].capture_intent = "none"
                 /\ lastResp[s].notes.stage = "goal"
                 /\ ~lastResp[s].notes.capture_locked

\* a first request with an unknown stage and no earlier inputs is answered
\* by the last branch of the stage machine
C26_Witness ==
  \E s \in active :
    /\ nturns[s] = 1
    /\ lastReq[s].notes.stage = "bogus"
    /\ ~lastReq[s].notes.capture_locked
    /\ lastReq[s].notes.user_inputs = 0
    /\ lastResp[s].branch = "unexpected"
    /\ WentToCapture(s)

\* coerceToContract has returned
Coerced == probe.fn = "coerceToContract" /\ probe.done

\* C27: coerceToContract returns, for every input, an object with exactly the
\* keys reply, next_question and capture_intent, where reply and
\* next_question are non-empty strings and capture_intent is one of none and
\* ask_contact.
C27_AlwaysTheContract ==
  Coerced
    => /\ DOMAIN probe.out = {"reply", "next_question", "capture_intent"}
       /\ NonEmptyString(probe.out.reply)
       /\ NonEmptyString(probe.out.next_question)
       /\ probe.out.capture_intent \in {IntentNone, IntentAskContact}

\* an object whose reply is blank, whose question is a number and whose
\* intent is an unknown word comes back with both failsafes and intent none
C27_Witness ==
  /\ Coerced
  /\ Get(probe.input, "reply") = JStr(<<" ", " ">>)
  /\ Get(probe.input, "next_question") = JNum(1)
  /\ Get(probe.input, "capture_intent") = JStr(<<"l", "a", "t", "e", "r">>)
  /\ probe.out.reply = ReplyFailsafe
  /\ probe.out.next_question = QuestionFailsafe
  /\ probe.out.capture_intent = IntentNone

\* JSON text of an object is parsed, its reply trimmed and its intent kept
C27_WitnessParsed ==
  /\ Coerced
  /\ probe.input.t = "str"
  /\ probe.out.reply = JStr(<<"H", "i">>)
  /\ probe.out.capture_intent = IntentAskContact

\* C28: every response of the dialogue handler to a POST satisfies:
\* capture_intent = ask_contact if and only if the returned
\* notes.capture_locked is true, if and only if the returned notes.stage is
\* capture; and when capture_intent = none the returned stage is one of
\* goal, business, metric.
C28_IntentLockStageAgree ==
  \A s \in active :
    nturns[s] >= 1
      => /\ lastResp[s].capture_intent \in {"none", "ask_contact"}
         /\ (lastResp[s].capture_intent = "ask_contact") = lastResp[s].notes.capture_locked
         /\ lastResp[s].notes.capture_locked = (lastResp[s].notes.stage = "capture")
         /\ lastResp[s].capture_intent = "none"
              => lastResp[s].notes.stage \in {"goal", "business", "metric"}

\* a first request whose notes say locked at stage goal is answered by the
\* locked branch, which writes the stage
C28_Witness ==
  \E s \in active :
    /\ nturns[s] = 1
    /\ lastReq[s].notes.capture_locked
    /\ lastReq[s].notes.stage = "goal"
    /\ lastResp[s].branch = "locked"
    /\ lastResp[s].capture_intent = "ask_contact"
    /\ lastResp[s].notes.stage = "capture"

\* a response with capture_intent none at stage metric, not locked
C28_WitnessNone ==
  \E s \in active :
    /\ nturns[s] >= 1
    /\ lastResp[s].capture_intent = "none"
    /\ lastResp[s].notes.stage = "metric"
    /\ ~lastResp[s].notes.capture_locked

\* the last request of s satisfies the condition of the absolute-ceiling
\* branch: capture not locked and the input count at the ceiling
CeilingCondition(s) ==
  /\ ~ReachedCapture(lastReq[s].notes)
  /\ lastReq[s].notes.user_inputs + 1 >= MAX_USER_INPUTS_TOTAL

\* C29: the absolute-ceiling branch of the dialogue handler is never taken:
\* every request that satisfies its condition has been answered by the
\* earlier cap branch; and in a dialogue started from empty notes with the
\* notes resent verbatim, capture is reached through the metric stage, and
\* neither cap answers any of its requests.
C29_CeilingNeverTaken ==
  \A s \in active :
    nturns[s] >= 1
      => /\ lastResp[s].branch # "ceiling"
         /\ CeilingCondition(s) => lastResp[s].branch = "cap"
         /\ Fresh(s)
              => /\ lastResp[s].branch \notin {"cap", "ceiling", "unexpected"}
                 /\ lastReq[s].notes.user_inputs + 1 = nturns[s]
                 /\ (~ReachedCapture(lastReq[s].notes) /\ ReachedCapture(lastResp[s].notes))
                      => /\ lastResp[s].branch = "metric"
                         /\ lastReq[s].notes.user_inputs + 1 < MAX_USER_INPUTS_BEFORE_INTAKE

\* a request with nine earlier inputs, not locked, satisfies the condition
\* of the ceiling branch and is answered by the cap branch
C29_Witness ==
  \E s \in active :
    /\ nturns[s] >= 1
    /\ CeilingCondition(s)
    /\ lastReq[s].notes.stage = "business"
    /\ lastResp[s].branch = "cap"
    /\ lastResp[s].capture_intent = "ask_contact"

\* a dialogue from empty notes reaches capture on its fourth request, in the
\* metric branch
C29_WitnessFresh ==
  \E s \in active :
    /\ Fresh(s)
    /\ nturns[s] = 4
    /\ lastResp[s].branch = "metric"
    /\ lastResp[s].notes.user_inputs = 4
    /\ ReachedCapture(lastResp[s].notes)
====
